---- MODULE Spec2Model ----
(***************************************************************************)
(* A model of the schema-validated structured-extraction protocol of       *)
(* demos/demo_structured_output.py: ExtractionAgent.extract renders a      *)
(* prompt from a schema and a source text, calls the language model,       *)
(* validates the response against the schema and, on a validation failure, *)
(* appends the failing output and the error to the prompt and retries,     *)
(* up to max_retries times.                                                *)
(*                                                                         *)
(* Texts (prompts, responses, error messages) are sequences of tokens; a   *)
(* token is a record [k, v] of a kind and a lexeme.  The parsing and the   *)
(* validation of a response are computed on its tokens: a string literal   *)
(* is decoded from its lexeme to the code points of its characters, an int *)
(* is held as its decimal numeral.                                         *)
(*                                                                         *)
(* More specifications share the module, each over its own variables with  *)
(* the others left unchanged: FairSpec (extract under fair scheduling),    *)
(* SpecTimeout (extract under a deadline of its caller), SpecSessions (two *)
(* calls of extract at once), SpecScript (demos/utils/script_tool.py),     *)
(* SpecBatch (the batch loops of the essay and the coding autograder),     *)
(* SpecCoro (_run_coro_in_new_loop of demos/web_search_tool.py),           *)
(* SpecCoding (main of the coding autograder), SpecChunk (the chunking     *)
(* loops of the retrieval demos) and SpecRoundTrip (a response validated,  *)
(* the instance written with model_dump_json and validated again).         *)
(***************************************************************************)
EXTENDS Integers, Sequences, FiniteSets, TLC

\* ------------------------------------------------------------------ bounds

\* The largest retry budget an agent is constructed with.
MaxRetries == 3

\* The largest retry budget of an agent when two calls of extract run at once.
MaxSessionRetries == 2

\* The number of invocations of the script tool.
MaxInvocations == 2

\* The largest number of essays or submissions of a batch.
MaxItems == 3

\* The largest return code of a script that is followed.
MaxReturnCode == 2

\* The number of calls of _run_coro_in_new_loop.
MaxUses == 2

\* The longest text given to the chunking loops, the largest chunk size and
\* overlap, and the number of iterations a loop is followed for.
MaxTextLen == 4
MaxChunkSize == 3
MaxIterations == MaxTextLen + 2

\* ------------------------------------------------------------------ tokens

P(v) == [k |-> "p", v |-> v]      \* punctuation: { } [ ] , :
S(v) == [k |-> "s", v |-> v]      \* a JSON string literal with lexeme v
N(v) == [k |-> "n", v |-> v]      \* a JSON number literal with lexeme v
B(v) == [k |-> "b", v |-> v]      \* the JSON literals true and false
Z == [k |-> "z", v |-> "null"]    \* the JSON literal null
W(v) == [k |-> "w", v |-> v]      \* plain text that is not JSON
WS == [k |-> "ws", v |-> " "]     \* whitespace

ScalarKinds == {"s", "n", "b", "z"}

\* Whether sub occurs in s as a contiguous run of tokens (sub in s, in Python).
Contains(s, sub) ==
  LET n == Len(sub)
  IN  \/ n = 0
      \/ \E i \in 0..(Len(s) - n) :
           /\ s[i + 1] = sub[1]
           /\ \A j \in 2..n : s[i + j] = sub[j]

\* Whether pre is a prefix of s (s.startswith(pre), in Python).
StartsWith(s, pre) ==
  /\ Len(pre) <= Len(s)
  /\ \A j \in 1..Len(pre) : s[j] = pre[j]

\* ------------------------------------------------ characters and strings

\* The member of a set of one member: Only({F(x) : x \in {e}}) is F(e), with
\* e worked out once.
Only(set) == CHOOSE x \in set : TRUE

\* The character of a string at position i, and the string from position i on.
CharAt(str, i) == SubSeq(str, i, i)
From(str, i) == SubSeq(str, i, Len(str))

Digits == {"0", "1", "2", "3", "4", "5", "6", "7", "8", "9"}
NonZeroDigits == Digits \ {"0"}

DigitValue(c) ==
  CASE c = "0" -> 0 [] c = "1" -> 1 [] c = "2" -> 2 [] c = "3" -> 3
    [] c = "4" -> 4 [] c = "5" -> 5 [] c = "6" -> 6 [] c = "7" -> 7
    [] c = "8" -> 8 [] c = "9" -> 9

AllIn(str, chars) == \A i \in 1..Len(str) : CharAt(str, i) \in chars

FirstCharIn(str, chars) == Len(str) > 0 /\ CharAt(str, 1) \in chars

\* The first position of one of the characters in a string, or 0.
FirstIndex(str, chars) ==
  LET hits == {i \in 1..Len(str) : CharAt(str, i) \in chars}
  IN  IF hits = {} THEN 0 ELSE CHOOSE i \in hits : \A j \in hits : i <= j

\* The first position of a character that is none of the characters, or 0.
FirstOther(str, chars) ==
  LET hits == {i \in 1..Len(str) : CharAt(str, i) \notin chars}
  IN  IF hits = {} THEN 0 ELSE CHOOSE i \in hits : \A j \in hits : i <= j

\* The number of digits a string starts with.
DigitRun(str) ==
  IF FirstOther(str, Digits) = 0 THEN Len(str) ELSE FirstOther(str, Digits) - 1

\* The characters a lexeme is written with, in the order of their code points:
\* U+0020 to U+005F, and U+0061 to U+00FF.  A lexeme holds no control
\* character, no backtick and no character above U+00FF as it is: a JSON text
\* writes these with an escape, \u and four hexadecimal digits.
AsciiChars ==
  " !\"#$%&'()*+,-./0123456789:;<=>?"
  \o "@ABCDEFGHIJKLMNOPQRSTUVWXYZ[\\]^_"
LatinChars ==
  "abcdefghijklmnopqrstuvwxyz{|}~"
  \o " "
  \o "¡¢£¤¥¦§¨©ª«¬­®¯°±²³´µ¶·¸¹º»¼½¾¿À"
  \o "ÁÂÃÄÅÆÇÈÉÊËÌÍÎÏÐÑÒÓÔÕÖ×ØÙÚÛÜÝÞßà"
  \o "áâãäåæçèéêëìíîïðñòóôõö÷øùúûüýþÿ"

\* The code points of the characters of a table: the character at position i
\* has the code point base + i.
RECURSIVE TableRange(_, _, _, _)
TableRange(chars, base, lo, hi) ==
  IF lo = hi THEN CharAt(chars, lo) :> (base + lo)
  ELSE TableRange(chars, base, lo, (lo + hi) \div 2)
         @@ TableRange(chars, base, (lo + hi) \div 2 + 1, hi)

CodeTable ==
  TableRange(AsciiChars, 31, 1, Len(AsciiChars))
    @@ TableRange(LatinChars, 96, 1, Len(LatinChars))

\* The code point of a character of a lexeme, -1 for a control character.
CodeOf(c) == IF c \in DOMAIN CodeTable THEN CodeTable[c] ELSE 0 - 1

\* The character of a code point a lexeme can hold.
CharOf(cp) ==
  IF cp < 96 THEN CharAt(AsciiChars, cp - 31) ELSE CharAt(LatinChars, cp - 96)

\* A decoded string is the sequence of the code points of its characters.
Codes(str) == [k \in 1..Len(str) |-> CodeOf(CharAt(str, k))]

\* The value of a hexadecimal digit, -1 for another character, and of four.
HexDigit(c) ==
  IF FirstIndex("0123456789abcdef", {c}) > 0
  THEN FirstIndex("0123456789abcdef", {c}) - 1
  ELSE FirstIndex("0123456789ABCDEF", {c}) - 1

HexAt(str, i) ==
  IF i + 3 > Len(str) \/ \E k \in i..(i + 3) : HexDigit(CharAt(str, k)) < 0
  THEN 0 - 1
  ELSE 4096 * HexDigit(CharAt(str, i)) + 256 * HexDigit(CharAt(str, i + 1))
       + 16 * HexDigit(CharAt(str, i + 2)) + HexDigit(CharAt(str, i + 3))

ToHex4(n) ==
  CharAt("0123456789abcdef", ((n \div 4096) % 16) + 1)
    \o CharAt("0123456789abcdef", ((n \div 256) % 16) + 1)
    \o CharAt("0123456789abcdef", ((n \div 16) % 16) + 1)
    \o CharAt("0123456789abcdef", (n % 16) + 1)

\* The escape at position i of a lexeme (a backslash): the number of characters
\* it takes, 0 when it is no escape of JSON, and the code point it writes.  A
\* code point above U+FFFF is written as a pair of surrogates; a surrogate
\* that is not of a pair is an error.
Escape(n, cp) == [n |-> n, cp |-> cp]

SurrogatePair(high, low) ==
  IF low \in 56320..57343
  THEN Escape(12, 65536 + (high - 55296) * 1024 + (low - 56320))
  ELSE Escape(0, 0)

UnicodeEscape(str, i, code) ==
  IF code < 0 \/ code \in 56320..57343 THEN Escape(0, 0)
  ELSE IF code \in 55296..56319
  THEN IF i + 7 <= Len(str) /\ SubSeq(str, i + 6, i + 7) = "\\u"
       THEN SurrogatePair(code, HexAt(str, i + 8))
       ELSE Escape(0, 0)
  ELSE Escape(6, code)

EscapeAt(str, i) ==
  IF i + 1 > Len(str) THEN Escape(0, 0)
  ELSE CASE CharAt(str, i + 1) = "\"" -> Escape(2, 34)
         [] CharAt(str, i + 1) = "\\" -> Escape(2, 92)
         [] CharAt(str, i + 1) = "/" -> Escape(2, 47)
         [] CharAt(str, i + 1) = "b" -> Escape(2, 8)
         [] CharAt(str, i + 1) = "f" -> Escape(2, 12)
         [] CharAt(str, i + 1) = "n" -> Escape(2, 10)
         [] CharAt(str, i + 1) = "r" -> Escape(2, 13)
         [] CharAt(str, i + 1) = "t" -> Escape(2, 9)
         [] CharAt(str, i + 1) = "u" -> UnicodeEscape(str, i, HexAt(str, i + 2))
         [] OTHER -> Escape(0, 0)

\* The characters of a lexeme from position i up to the next backslash, and
\* their code points: -1 for a control character and for a quote, which a
\* JSON string does not hold as they are.
RunUpTo(rest, stop) == IF stop = 0 THEN rest ELSE SubSeq(rest, 1, stop - 1)

PlainRun(str, i) == RunUpTo(From(str, i), FirstIndex(From(str, i), {"\\"}))

PlainCodes(str) ==
  [k \in 1..Len(str) |-> IF CharAt(str, k) = "\"" THEN 0 - 1 ELSE CodeOf(CharAt(str, k))]

\* The code points a lexeme writes from position i on, -1 where it is wrong:
\* an escape is read at a backslash, a run of plain characters elsewhere.
RECURSIVE UnescapeFrom(_, _)
AfterEscape(str, i, esc) ==
  IF esc.n = 0 THEN << 0 - 1 >>
  ELSE << esc.cp >> \o UnescapeFrom(str, i + esc.n)

AfterRun(str, i, run) == PlainCodes(run) \o UnescapeFrom(str, i + Len(run))

UnescapeFrom(str, i) ==
  IF i > Len(str) THEN <<>>
  ELSE IF CharAt(str, i) = "\\" THEN AfterEscape(str, i, EscapeAt(str, i))
  ELSE AfterRun(str, i, PlainRun(str, i))

\* The string a JSON string literal writes, read from its lexeme.
Decoded(cps) ==
  IF \E k \in 1..Len(cps) : cps[k] < 0 THEN [ok |-> FALSE, cps |-> <<>>]
  ELSE [ok |-> TRUE, cps |-> cps]

JsonUnescape(lexeme) == Decoded(UnescapeFrom(lexeme, 1))

\* A string written as the lexeme of a JSON string literal: a quote, a
\* backslash and the control characters are escaped; the other characters are
\* written as they are, but those a lexeme cannot hold (the backtick and the
\* characters above U+00FF), which are written with \u escapes here.
EscapeCode(cp) ==
  CASE cp = 34 -> "\\\""
    [] cp = 92 -> "\\\\"
    [] cp = 8 -> "\\b"
    [] cp = 12 -> "\\f"
    [] cp = 10 -> "\\n"
    [] cp = 13 -> "\\r"
    [] cp = 9 -> "\\t"
    [] cp >= 65536 -> "\\u" \o ToHex4(55296 + (cp - 65536) \div 1024)
                        \o "\\u" \o ToHex4(56320 + ((cp - 65536) % 1024))
    [] cp < 32 \/ cp = 96 \/ cp > 255 -> "\\u" \o ToHex4(cp)
    [] OTHER -> CharOf(cp)

RECURSIVE EscapeRange(_, _, _)
EscapeRange(cps, lo, hi) ==
  IF lo > hi THEN ""
  ELSE IF lo = hi THEN EscapeCode(cps[lo])
  ELSE EscapeRange(cps, lo, (lo + hi) \div 2)
         \o EscapeRange(cps, (lo + hi) \div 2 + 1, hi)

JsonEscape(cps) == EscapeRange(cps, 1, Len(cps))

\* The characters of a decoded string for the reading of an int or a bool,
\* which are written in ASCII: any other character stands as a question mark.
RECURSIVE TextRange(_, _, _)
TextRange(cps, lo, hi) ==
  IF lo > hi THEN ""
  ELSE IF lo = hi
  THEN (IF cps[lo] \in 32..126 /\ cps[lo] # 96 THEN CharOf(cps[lo]) ELSE "?")
  ELSE TextRange(cps, lo, (lo + hi) \div 2)
         \o TextRange(cps, (lo + hi) \div 2 + 1, hi)

AsciiText(cps) == TextRange(cps, 1, Len(cps))

\* The string with its white space at both ends removed (str.trim): the
\* characters of the Unicode property White_Space.
WhiteSpace ==
  {9, 10, 11, 12, 13, 32, 133, 160, 5760} \cup (8192..8202)
    \cup {8232, 8233, 8239, 8287, 12288}

TrimTo(cps, solid) ==
  IF solid = {} THEN <<>>
  ELSE SubSeq(cps, CHOOSE i \in solid : \A j \in solid : i <= j,
                   CHOOSE i \in solid : \A j \in solid : j <= i)

Trim(cps) == TrimTo(cps, {i \in 1..Len(cps) : cps[i] \notin WhiteSpace})

\* The string with its ASCII upper-case letters in lower case.
UpperCase == "ABCDEFGHIJKLMNOPQRSTUVWXYZ"
LowerCase == "abcdefghijklmnopqrstuvwxyz"
LowerChar(c, up) ==
  IF up = {} THEN c ELSE CharAt(LowerCase, CHOOSE i \in up : TRUE)

RECURSIVE LowerRange(_, _, _)
LowerRange(str, lo, hi) ==
  IF lo > hi THEN ""
  ELSE IF lo = hi
  THEN LowerChar(CharAt(str, lo),
                 {i \in 1..Len(UpperCase) : CharAt(UpperCase, i) = CharAt(str, lo)})
  ELSE LowerRange(str, lo, (lo + hi) \div 2)
         \o LowerRange(str, (lo + hi) \div 2 + 1, hi)

AsciiLower(str) == LowerRange(str, 1, Len(str))

\* The most characters, a minus sign and digits, that the reader takes as the
\* integer part of a number, and the validator as a string read as an int.
MaxIntDigits == 4300

\* ------------------------------------------------------- the JSON reading

\* A parsed JSON value: a scalar keeps its kind and lexeme, an array its items,
\* an object its members (pairs of a key and a value) in the order of the text.
JScalar(tok) ==
  [t |-> tok.k, v |-> tok.v, cps |-> <<>>, items |-> <<>>, members |-> <<>>]
JString(cps) == [t |-> "s", v |-> "", cps |-> cps, items |-> <<>>, members |-> <<>>]
JArray(items) == [t |-> "a", v |-> "", cps |-> <<>>, items |-> items, members |-> <<>>]
JObject(members) ==
  [t |-> "o", v |-> "", cps |-> <<>>, items |-> <<>>, members |-> members]
JNone == [t |-> "none", v |-> "", cps |-> <<>>, items |-> <<>>, members |-> <<>>]

\* The length of the integer part of a number lexeme: its digits, and its
\* minus sign when it has one.
IntegerLength(lexeme) ==
  IF FirstCharIn(lexeme, {"-"}) THEN 1 + DigitRun(From(lexeme, 2))
  ELSE DigitRun(lexeme)

\* A scalar token read as a value: a string is decoded and a number measured,
\* and a string that does not decode or a number whose integer part is longer
\* than MaxIntDigits is an error of the text.
StringValue(decoded, i) ==
  IF decoded.ok THEN [ok |-> TRUE, pos |-> i + 1, val |-> JString(decoded.cps)]
  ELSE [ok |-> FALSE, pos |-> 0, val |-> JNone]

ScalarValue(tok, i) ==
  IF tok.k = "s" THEN StringValue(JsonUnescape(tok.v), i)
  ELSE IF tok.k = "n" /\ IntegerLength(tok.v) > MaxIntDigits
  THEN [ok |-> FALSE, pos |-> 0, val |-> JNone]
  ELSE [ok |-> TRUE, pos |-> i + 1, val |-> JScalar(tok)]

ParseFail == [ok |-> FALSE, pos |-> 0, val |-> JNone]

\* The reading of the tokens from position i on, as the grammar of JSON has
\* it.  Reading "value", the result is one JSON value (a scalar, an array or an
\* object) and the position after it.  Reading "items", it is the array whose
\* first items are acc and whose other items start at i (after "[" or after a
\* ","), up to "]": each item is a JSON value of any kind.  Reading "members",
\* it is the object whose first members are acc and whose other members start
\* at i (after "{" or after a ","), up to "}": each member is a string key,
\* ":", and a JSON value of any kind.  depth is the number of arrays and
\* objects open around position i: the reader opens no array or object with
\* something in it inside MaxNesting others, and the text is then not valid.
MaxNesting == 200

RECURSIVE ParseAt(_, _, _, _, _)
ParseAt(reading, toks, i, acc, depth) ==
  IF i > Len(toks) THEN ParseFail
  ELSE IF reading = "value"
  THEN IF toks[i].k \in ScalarKinds
       THEN ScalarValue(toks[i], i)
       ELSE IF toks[i] \in {P("["), P("{")}
            THEN LET array == toks[i] = P("[")
                     close == IF array THEN P("]") ELSE P("}")
                 IN  IF i + 1 <= Len(toks) /\ toks[i + 1] = close
                     THEN [ok |-> TRUE, pos |-> i + 2,
                           val |-> IF array THEN JArray(<<>>) ELSE JObject(<<>>)]
                     ELSE IF depth >= MaxNesting THEN ParseFail
                     ELSE ParseAt(IF array THEN "items" ELSE "members",
                                  toks, i + 1, <<>>, depth + 1)
            ELSE ParseFail
  ELSE LET keyed == reading = "members"
           at == IF keyed THEN i + 2 ELSE i
           pv == IF keyed /\ (\/ i + 1 > Len(toks) \/ toks[i].k # "s"
                               \/ toks[i + 1] # P(":") \/ ~JsonUnescape(toks[i].v).ok)
                 THEN ParseFail
                 ELSE ParseAt("value", toks, at, <<>>, depth)
       IN  IF ~pv.ok \/ pv.pos > Len(toks)
           THEN ParseFail
           ELSE LET more == Append(acc, IF keyed THEN [key |-> JsonUnescape(toks[i].v).cps,
                                                      val |-> pv.val]
                                        ELSE pv.val)
                IN  IF toks[pv.pos] = (IF keyed THEN P("}") ELSE P("]"))
                    THEN [ok |-> TRUE, pos |-> pv.pos + 1,
                          val |-> IF keyed THEN JObject(more) ELSE JArray(more)]
                    ELSE IF toks[pv.pos] = P(",")
                         THEN ParseAt(reading, toks, pv.pos + 1, more, depth)
                         ELSE ParseFail

\* One JSON value at position i: a scalar, an array or an object.
ParseValue(toks, i) == ParseAt("value", toks, i, <<>>, 0)

\* JSON allows whitespace between any two tokens.
StripWs(toks) == SelectSeq(toks, LAMBDA t : t.k # "ws")

\* A reading that takes a text with no token for the empty object.
ParseJson_EmptyIsObject(text) ==
  LET toks == StripWs(text)
      bad == [ok |-> FALSE, obj |-> FALSE, members |-> <<>>]
      pv == ParseValue(toks, 1)
  IN  IF toks = <<>> THEN [ok |-> TRUE, obj |-> TRUE, members |-> <<>>]
      ELSE IF pv.ok /\ pv.pos = Len(toks) + 1
           THEN [ok |-> TRUE, obj |-> pv.val.t = "o", members |-> pv.val.members]
           ELSE bad

\* The reading of a whole text as JSON: ok iff the text is one JSON value and
\* nothing else; obj iff that value is an object, and then its members in order.
ParseJson(text) ==
  LET toks == StripWs(text)
      bad == [ok |-> FALSE, obj |-> FALSE, members |-> <<>>]
      pv == ParseValue(toks, 1)
  IN  IF pv.ok /\ pv.pos = Len(toks) + 1
      THEN [ok |-> TRUE, obj |-> pv.val.t = "o", members |-> pv.val.members]
      ELSE bad

\* ------------------------------------------------------------- the schema

\* A schema (a pydantic model class): its title and its fields in declaration
\* order, each with a name and a declared type; every field is required.
Field(name, title, type, description) ==
  [name |-> name, title |-> title, type |-> type, description |-> description]

UserProfile ==
  [title |-> "UserProfile",
   fields |->
     << Field("name", "Name", "str", "The full name of the user."),
        Field("age", "Age", "int", "The age of the user."),
        Field("city", "City", "str", "The city where the user resides."),
        Field("interests", "Interests", "list_str",
              "A list of the user's interests or hobbies."),
        Field("is_student", "Is Student", "bool",
              "Whether the user is currently a student.") >>]

\* A second schema handed to extract: a name, an age and a list of interests.
Person ==
  [title |-> "Person",
   fields |->
     << Field("name", "Name", "str", "The name of the person."),
        Field("age", "Age", "int", "The age of the person."),
        Field("interests", "Interests", "list_str", "What the person likes.") >>]

\* The schemas extract is called with.
Schemas == {UserProfile, Person}

\* A validated Python value: t names its type, and i, s, b or l holds it.  An
\* int, which has no largest value, is held as its decimal numeral; a str as
\* the code points of its characters; a list of str as the list of these.
PyInt(n) == [t |-> "int", i |-> n, s |-> <<>>, b |-> FALSE, l |-> <<>>]
PyStr(x) == [t |-> "str", i |-> "", s |-> x, b |-> FALSE, l |-> <<>>]
PyBool(x) == [t |-> "bool", i |-> "", s |-> <<>>, b |-> x, l |-> <<>>]
PyList(x) == [t |-> "list", i |-> "", s |-> <<>>, b |-> FALSE, l |-> x]
PyNone == [t |-> "None", i |-> "", s |-> <<>>, b |-> FALSE, l |-> <<>>]

\* The outcome of validating one field: a value, or the errors found, each with
\* its location (the field, and the index of a list item) and its error type.
FieldOk(val) == [ok |-> TRUE, val |-> val, errors |-> <<>>]
FieldErr(loc, type) ==
  [ok |-> FALSE, val |-> PyNone, errors |-> << [loc |-> loc, type |-> type] >>]

\* ---- strings and numbers as the validators read them

\* The decimal numeral of an integer: no sign for zero.
Numeral(negative, digits) ==
  IF negative /\ digits # "0" THEN "-" \o digits ELSE digits

\* The exponent of a number lexeme: an optional sign, then digits.
RECURSIVE DigitsValue(_)
DigitsValue(str) ==
  IF Len(str) = 0 THEN 0
  ELSE 10 * DigitsValue(SubSeq(str, 1, Len(str) - 1)) + DigitValue(CharAt(str, Len(str)))

Exponent(str) ==
  IF FirstCharIn(str, {"-"}) THEN 0 - DigitsValue(From(str, 2))
  ELSE IF FirstCharIn(str, {"+"}) THEN DigitsValue(From(str, 2))
  ELSE DigitsValue(str)

\* A string read as an integer the way the reader of JSON reads one: an
\* optional minus sign, then a zero or a digit from 1 to 9 followed by digits,
\* and nothing else.  The sign and the digits after it being more than
\* MaxIntDigits characters is an error of size, found before what follows the
\* digits is looked at.
IntErr(err) == [ok |-> FALSE, err |-> err, i |-> ""]

UnsignedInt(negative, body, run) ==
  IF run = 0 THEN IntErr("int_parsing")
  ELSE IF CharAt(body, 1) = "0" /\ run > 1 THEN IntErr("int_parsing")
  ELSE IF run + (IF negative THEN 1 ELSE 0) > MaxIntDigits
  THEN IntErr("int_parsing_size")
  ELSE IF run < Len(body) THEN IntErr("int_parsing")
  ELSE [ok |-> TRUE, err |-> "", i |-> Numeral(negative, body)]

ParseInt(str) ==
  IF FirstCharIn(str, {"-"}) THEN UnsignedInt(TRUE, From(str, 2), DigitRun(From(str, 2)))
  ELSE UnsignedInt(FALSE, str, DigitRun(str))

NoStr == [ok |-> FALSE, s |-> ""]
SomeStr(str) == [ok |-> TRUE, s |-> str]

\* The leading zeros of a string taken off: zeros and underscores are passed
\* over up to a digit from 1 to 9 or a minus sign, from which the rest is
\* returned, or up to a point, which keeps the zero before it; a string of
\* zeros only keeps its last character; a string that starts with a digit from
\* 1 to 9 or a minus sign is returned as it is, any other start fails.
StripZerosAt(str, i) ==
  IF i > Len(str) THEN SomeStr(From(str, Len(str)))
  ELSE IF CharAt(str, i) \in NonZeroDigits \cup {"-"} THEN SomeStr(From(str, i))
  ELSE IF CharAt(str, i) = "." THEN SomeStr(From(str, i - 1))
  ELSE NoStr

StripZerosFrom(str, i) ==
  IF FirstOther(From(str, i), {"0", "_"}) = 0 THEN StripZerosAt(str, Len(str) + 1)
  ELSE StripZerosAt(str, i + FirstOther(From(str, i), {"0", "_"}) - 1)

strip_leading_zeros(str) ==
  IF Len(str) = 0 THEN NoStr
  ELSE IF CharAt(str, 1) = "0" THEN StripZerosFrom(str, 2)
  ELSE IF CharAt(str, 1) \in NonZeroDigits \cup {"-"} THEN SomeStr(str)
  ELSE NoStr

\* A decimal part of one zero or more, and of zeros only, is taken off with
\* its point; any other string is returned as it is.
SplitAtPoint(str, dot) ==
  IF dot > 0 /\ dot < Len(str) /\ AllIn(From(str, dot + 1), {"0"})
  THEN SomeStr(SubSeq(str, 1, dot - 1))
  ELSE SomeStr(str)

strip_decimal_zeros(str) == SplitAtPoint(str, FirstIndex(str, {"."}))

\* The underscores between digits are taken off; fails on a string with no
\* underscore, with one at an end, or with two in a row.
RECURSIVE WithoutRange(_, _, _)
WithoutRange(str, lo, hi) ==
  IF lo > hi THEN ""
  ELSE IF lo = hi THEN (IF CharAt(str, lo) = "_" THEN "" ELSE CharAt(str, lo))
  ELSE WithoutRange(str, lo, (lo + hi) \div 2)
         \o WithoutRange(str, (lo + hi) \div 2 + 1, hi)

WithoutUnderscores(str) == WithoutRange(str, 1, Len(str))

strip_underscores(str) ==
  IF \/ FirstIndex(str, {"_"}) = 0
     \/ CharAt(str, 1) = "_"
     \/ CharAt(str, Len(str)) = "_"
     \/ \E i \in 1..(Len(str) - 1) : CharAt(str, i) = "_" /\ CharAt(str, i + 1) = "_"
  THEN NoStr
  ELSE SomeStr(WithoutUnderscores(str))

\* The cleaning of a string that did not read as an integer as it stands: the
\* string is trimmed, one sign is taken off (a second sign after it fails),
\* then the leading zeros, a decimal part of zeros and the underscores of the
\* rest, and a minus sign is put back; it fails when a step fails or when, no
\* underscore having been taken off, the rest is as long as the string was
\* before it was trimmed.
Signed(negative, str) == SomeStr(IF negative THEN "-" \o str ELSE str)

CleanUnderscores(us, str, negative, len_before) ==
  IF us.ok THEN Signed(negative, us.s)
  ELSE IF Len(str) = len_before THEN NoStr
  ELSE Signed(negative, str)

CleanDecimal(dz, negative, len_before) ==
  IF dz.ok THEN CleanUnderscores(strip_underscores(dz.s), dz.s, negative, len_before)
  ELSE NoStr

CleanZeros(lz, negative, len_before) ==
  IF lz.ok THEN CleanDecimal(strip_decimal_zeros(lz.s), negative, len_before)
  ELSE NoStr

CleanBody(str, negative, len_before) ==
  CleanZeros(strip_leading_zeros(str), negative, len_before)

CleanTrimmed(str, len_before) ==
  IF FirstCharIn(str, {"+"})
  THEN IF FirstCharIn(From(str, 2), {"-"}) THEN NoStr
       ELSE CleanBody(From(str, 2), FALSE, len_before)
  ELSE IF FirstCharIn(str, {"-"})
  THEN IF FirstCharIn(From(str, 2), {"-", "+"}) THEN NoStr
       ELSE CleanBody(From(str, 2), TRUE, len_before)
  ELSE CleanBody(str, FALSE, len_before)

clean_int_str(cps) ==
  Only({CleanTrimmed(str, Len(cps)) : str \in {AsciiText(Trim(cps))}})

\* A string read as an int: the string is read as it stands, white space
\* included; when that fails, and not for its size, it is cleaned, which trims
\* it, and read again, and any failure of the second reading is an error of
\* parsing.
ParseCleaned(cleaned) ==
  IF cleaned.ok /\ ParseInt(cleaned.s).ok THEN ParseInt(cleaned.s)
  ELSE IntErr("int_parsing")

PlainOrCleaned(plain, cps) ==
  IF plain.ok \/ plain.err = "int_parsing_size" THEN plain
  ELSE ParseCleaned(clean_int_str(cps))

str_as_int(cps) ==
  Only({PlainOrCleaned(ParseInt(str), cps) : str \in {AsciiText(cps)}})

\* Arithmetic on naturals written as strings of decimal digits, for values
\* beyond the machine integers: a number read as a float has up to 309 digits
\* before the point and any number after it.
RECURSIVE Canon(_)
Canon(digits) ==
  IF Len(digits) = 0 THEN "0"
  ELSE IF Len(digits) > 1 /\ CharAt(digits, 1) = "0" THEN Canon(From(digits, 2))
  ELSE digits

RECURSIVE Zeros(_)
Zeros(n) ==
  IF n <= 0 THEN "" ELSE IF n = 1 THEN "0"
  ELSE Zeros(n \div 2) \o Zeros(n - n \div 2)

RECURSIVE Pow2(_)
Pow2(n) == IF n <= 0 THEN 1 ELSE 2 * Pow2(n - 1)

DigitAt(digits, i) == IF i <= Len(digits) THEN DigitValue(CharAt(digits, i)) ELSE 0

LexLess(a, b) ==
  \E i \in 1..(IF Len(a) > Len(b) THEN Len(a) ELSE Len(b)) :
    /\ DigitAt(a, i) < DigitAt(b, i)
    /\ \A j \in 1..(i - 1) : DigitAt(a, j) = DigitAt(b, j)

\* a < b for naturals without leading zeros.
NatLess(a, b) == Len(a) < Len(b) \/ (Len(a) = Len(b) /\ LexLess(a, b))

\* 0.a * 10^alen <= 0.b * 10^blen, for a and b without leading zeros.
DecLeq(a, alen, b, blen) == alen < blen \/ (alen = blen /\ ~LexLess(b, a))

\* digits * m + carry, for a small m.
RECURSIVE MulCarry(_, _, _)
MulCarry(digits, m, carry) ==
  IF carry = 0 /\ Len(digits) = 0 THEN ""
  ELSE IF Len(digits) = 0 THEN ToString(carry)
  ELSE MulCarry(SubSeq(digits, 1, Len(digits) - 1), m,
                (DigitValue(CharAt(digits, Len(digits))) * m + carry) \div 10)
       \o ToString((DigitValue(CharAt(digits, Len(digits))) * m + carry) % 10)

TimesSmall(digits, m) == Canon(MulCarry(digits, m, 0))
Succ(digits) == Canon(MulCarry(digits, 1, 1))

\* digits * 2^n, at most twenty doublings at a time.
RECURSIVE TimesPow2(_, _)
TimesPow2(digits, n) ==
  IF n <= 20 THEN TimesSmall(digits, Pow2(n))
  ELSE TimesPow2(TimesSmall(digits, Pow2(20)), n - 20)

\* The quotient and the remainder of digits by a small m.
RECURSIVE DivFrom(_, _, _, _, _)
DivFrom(digits, m, i, rem, quot) ==
  IF i > Len(digits) THEN [q |-> Canon(quot), r |-> rem]
  ELSE DivFrom(digits, m, i + 1,
               (rem * 10 + DigitValue(CharAt(digits, i))) % m,
               quot \o ToString((rem * 10 + DigitValue(CharAt(digits, i))) \div m))

DivSmall(digits, m) == DivFrom(digits, m, 1, 0, "")

\* 10^Len(digits) - digits, for digits not all zeros.
RECURSIVE Nines(_)
Nines(digits) ==
  IF Len(digits) = 0 THEN ""
  ELSE ToString(9 - DigitValue(CharAt(digits, 1))) \o Nines(From(digits, 2))

Complement(digits) == Succ(Nines(digits))

IsPow10(digits, s) ==
  Len(digits) = s + 1 /\ CharAt(digits, 1) = "1" /\ AllIn(From(digits, 2), {"0"})

\* digits <= 10^s, for digits without leading zeros.
LeqPow10(digits, s) == digits = "0" \/ Len(digits) <= s \/ IsPow10(digits, s)

\* The number of binary digits of a natural.
RECURSIVE BitLengthFrom(_, _, _)
BitLengthFrom(digits, power, n) ==
  IF NatLess(digits, power) THEN n
  ELSE BitLengthFrom(digits, TimesSmall(power, 2), n + 1)

BitLength(digits) == BitLengthFrom(digits, "1", 0)

TwoTo52 == "4503599627370496"
TwoTo63 == "9223372036854775808"

\* The least natural a double cannot hold, 2^1024 - 2^970: from it on, a
\* number read as a float is infinite.
RoundsToInfinity ==
  "179769313486231580793728971405303415079934132710037826936173"
  \o "778980444968292764750946649017977587207096330286416692887910"
  \o "946555547851940402630657488671505820681908902000708383676273"
  \o "854845817711531764475730270069855571366959622842914819860834"
  \o "936475292719074168444365510704342711559699508093042880177904"
  \o "174497792"

\* The digits of 2^-1075, half the least double above zero, which starts 323
\* places after the point: a number up to it reads as the float 0.0.
HalfLeastDouble ==
  "247032822920623272088284396434110686182529901307162382212792"
  \o "841250337753635104375932649918180817996189898282347722858865"
  \o "463328355177969898199387398005390939063150356595155702263922"
  \o "908583924491051844359318028499365361525003193704576782492193"
  \o "656236698636584807570015857692699037063119282795585513329278"
  \o "343384093519780155312465972635795746227664652728272200563740"
  \o "064854999770965994704540208281662262378573934507363390079677"
  \o "619305775067401763246736009689513405355374585166611342237666"
  \o "786041621596804619144672918403005300575308490487653917113865"
  \o "916462395249126236538818796362393732804238910186723484976682"
  \o "350898633885879256283027559956575244555072551893136908362547"
  \o "791869486679949683240497058210285131854513962138377228261454"
  \o "37693412532098591327667236328125"

\* A JSON number read from its lexeme: whether it is written as an integer
\* (no fraction, no exponent), the error of taking it as an int, "" when there
\* is none, and its value as an int. A number written as an integer is exact,
\* of any size. A number written with a fraction or an exponent is the nearest
\* IEEE double, ties to the even one: infinite or not a number is
\* finite_number, a fractional part is int_from_float, a whole value outside
\* the 64-bit integers is int_parsing_size.
NumberOk(int, negative, digits) ==
  [int |-> int, err |-> "", negative |-> negative, digits |-> digits]

NumberErr(err) == [int |-> FALSE, err |-> err, negative |-> FALSE, digits |-> "0"]

SizedFloat(negative, value) ==
  IF NatLess(value, TwoTo63) THEN NumberOk(FALSE, negative, value)
  ELSE NumberErr("int_parsing_size")

\* From 2^52 on the doubles are whole and `unit` apart: qr is the integer part
\* divided by unit, fraction the digits after the point.
GridFloat(negative, qr, unit, fraction) ==
  SizedFloat(negative,
    TimesSmall(
      IF \/ 2 * qr.r > unit
         \/ /\ 2 * qr.r = unit
            /\ unit > 1
            /\ (~AllIn(fraction, {"0"}) \/ DigitAt(qr.q, Len(qr.q)) % 2 = 1)
         \/ /\ unit = 1
            /\ \/ ~LeqPow10(TimesSmall(Canon(fraction), 2), Len(fraction))
               \/ /\ IsPow10(TimesSmall(Canon(fraction), 2), Len(fraction))
                  /\ DigitAt(qr.q, Len(qr.q)) % 2 = 1
      THEN Succ(qr.q) ELSE qr.q,
      unit))

\* Below 2^52 the doubles around n + 0.fraction are 2^-(m-1) apart: the value
\* is whole when the fraction, or what it lacks to 1, is at most 2^-m.
NearInteger(negative, n, fraction, m) ==
  IF LeqPow10(TimesPow2(Canon(fraction), m), Len(fraction))
  THEN NumberOk(FALSE, negative, n)
  ELSE IF LeqPow10(TimesPow2(Canon(Complement(fraction)), m), Len(fraction))
  THEN NumberOk(FALSE, negative, Succ(n))
  ELSE NumberErr("int_from_float")

RoundedFloat(negative, n, fraction, bits) ==
  IF bits <= 52 THEN NearInteger(negative, n, fraction, 54 - bits)
  ELSE GridFloat(negative, DivSmall(n, Pow2(bits - 53)), Pow2(bits - 53), fraction)

SplitFloat(negative, n, fraction) ==
  RoundedFloat(negative, n, fraction, BitLength(n))

\* digits has no leading zeros and is not zero; intlen is the number of its
\* digits before the point, zero or less for a value below 1.
FloatMagnitude(negative, digits, intlen) ==
  IF intlen > 309 \/ (intlen = 309 /\ ~LexLess(digits, RoundsToInfinity))
  THEN NumberErr("finite_number")
  ELSE IF intlen > 19 THEN NumberErr("int_parsing_size")
  ELSE IF intlen >= 1
  THEN IF Len(digits) > intlen
       THEN SplitFloat(negative, SubSeq(digits, 1, intlen), From(digits, intlen + 1))
       ELSE SplitFloat(negative, digits \o Zeros(intlen - Len(digits)), "")
  ELSE IF DecLeq(digits, intlen, HalfLeastDouble, 0 - 323)
  THEN NumberOk(FALSE, FALSE, "0")
  ELSE IF intlen = 0 /\ LeqPow10(TimesPow2(Canon(Complement(digits)), 54), Len(digits))
  THEN NumberOk(FALSE, negative, "1")
  ELSE NumberErr("int_from_float")

\* digits * 10^-scale, read as an integer when plain, as a float otherwise.
ScaledNumber(negative, digits, scale, plain) ==
  IF plain THEN NumberOk(TRUE, negative, digits)
  ELSE IF digits = "0" THEN NumberOk(FALSE, FALSE, "0")
  ELSE FloatMagnitude(negative, digits, Len(digits) - scale)

PointNumber(negative, mantissa, dot, exp, plain) ==
  IF dot = 0
  THEN ScaledNumber(negative, Canon(mantissa), 0 - exp, plain)
  ELSE ScaledNumber(negative,
                    Canon(SubSeq(mantissa, 1, dot - 1) \o From(mantissa, dot + 1)),
                    (Len(mantissa) - dot) - exp, FALSE)

MantissaNumber(negative, mantissa, exp, plain) ==
  PointNumber(negative, mantissa, FirstIndex(mantissa, {"."}), exp, plain)

ExponentNumber(negative, body, e) ==
  IF e = 0 THEN MantissaNumber(negative, body, 0, TRUE)
  ELSE MantissaNumber(negative, SubSeq(body, 1, e - 1),
                      Exponent(From(body, e + 1)), FALSE)

UnsignedNumber(negative, body) ==
  ExponentNumber(negative, body, FirstIndex(body, {"e", "E"}))

\* The reader also takes NaN, Infinity and -Infinity as numbers.
ReadNumber(lexeme) ==
  IF lexeme \in {"NaN", "Infinity", "-Infinity"} THEN NumberErr("finite_number")
  ELSE IF CharAt(lexeme, 1) = "-" THEN UnsignedNumber(TRUE, From(lexeme, 2))
  ELSE UnsignedNumber(FALSE, lexeme)

\* A number as the validators take it: big when it is written as an integer
\* of 19 digits or more, which the reader holds as a big integer.
NumberValue(num) ==
  [int |-> num.int, err |-> num.err,
   big |-> num.int /\ Len(num.digits) >= 19,
   i |-> Numeral(num.negative, num.digits)]

JsonNumber(lexeme) == Only({NumberValue(num) : num \in {ReadNumber(lexeme)}})

\* The strings the bool validator reads as true and as false, whatever the
\* case of their letters.
TrueStrings == {"true", "yes", "1", "on", "t", "y"}
FalseStrings == {"false", "no", "0", "off", "f", "n"}

\* A str field takes a JSON string and nothing else.
StrValidator(loc, jv) ==
  IF jv.t = "s" THEN FieldOk(PyStr(jv.cps)) ELSE FieldErr(loc, "string_type")

\* The int validator as strict validation would have it: JSON integers only.
IntFromNumber_Strict(loc, num) ==
  IF num.int THEN FieldOk(PyInt(num.i)) ELSE FieldErr(loc, "int_type")

IntValidator_Strict(loc, jv) ==
  IF jv.t = "n" THEN IntFromNumber_Strict(loc, JsonNumber(jv.v))
  ELSE FieldErr(loc, "int_type")

\* An int field takes a JSON number whose value is whole and, validation not
\* being strict, a bool (as 1 or 0) and a string that reads as an integer; a
\* number that is not finite, has a fractional part or is too large for a
\* 64-bit integer is an error of its own type.
IntFromNumber(loc, num) ==
  IF num.err = "" THEN FieldOk(PyInt(num.i)) ELSE FieldErr(loc, num.err)

IntFromString(loc, parsed) ==
  IF parsed.ok THEN FieldOk(PyInt(parsed.i)) ELSE FieldErr(loc, parsed.err)

IntValidator(loc, jv) ==
  CASE jv.t = "n" -> IntFromNumber(loc, JsonNumber(jv.v))
    [] jv.t = "b" -> FieldOk(PyInt(IF jv.v = "true" THEN "1" ELSE "0"))
    [] jv.t = "s" -> IntFromString(loc, str_as_int(jv.cps))
    [] OTHER -> FieldErr(loc, "int_type")

\* A bool field takes a JSON bool and, validation not being strict, the numbers
\* of value 0 and 1 and the strings that read as a bool; a number that does
\* not read as an int, or that is a big integer, is no bool at all
\* (bool_type), any other whole number fails to read as one (bool_parsing).
BoolFromString(loc, lower) ==
  IF lower \in TrueStrings THEN FieldOk(PyBool(TRUE))
  ELSE IF lower \in FalseStrings THEN FieldOk(PyBool(FALSE))
  ELSE FieldErr(loc, "bool_parsing")

BoolFromNumber(loc, num) ==
  IF num.err # "" \/ num.big THEN FieldErr(loc, "bool_type")
  ELSE IF num.i \in {"0", "1"} THEN FieldOk(PyBool(num.i = "1"))
  ELSE FieldErr(loc, "bool_parsing")

BoolValidator(loc, jv) ==
  CASE jv.t = "b" -> FieldOk(PyBool(jv.v = "true"))
    [] jv.t = "s" -> BoolFromString(loc, AsciiLower(AsciiText(jv.cps)))
    [] jv.t = "n" -> BoolFromNumber(loc, JsonNumber(jv.v))
    [] OTHER -> FieldErr(loc, "bool_type")

\* The errors of the items of a list of strings, from item i on, in order.
RECURSIVE ItemErrors(_, _, _)
ItemErrors(loc, items, i) ==
  IF i > Len(items) THEN <<>>
  ELSE (IF items[i].t = "s" THEN <<>>
        ELSE << [loc |-> Append(loc, W(ToString(i - 1))), type |-> "string_type"] >>)
       \o ItemErrors(loc, items, i + 1)

\* A List[str] field takes a JSON array whose items are all strings.
ListStrValidator(loc, jv) ==
  IF jv.t # "a" THEN FieldErr(loc, "list_type")
  ELSE LET errs == ItemErrors(loc, jv.items, 1)
       IN  IF errs = <<>>
           THEN FieldOk(PyList([i \in 1..Len(jv.items) |-> jv.items[i].cps]))
           ELSE [ok |-> FALSE, val |-> PyNone, errors |-> errs]

\* The validation of one member's value against its field's declared type.
ValidateField(f, jv) ==
  LET loc == << W(f.name) >>
  IN  CASE f.type = "str" -> StrValidator(loc, jv)
        [] f.type = "int" -> IntValidator(loc, jv)
        [] f.type = "bool" -> BoolValidator(loc, jv)
        [] f.type = "list_str" -> ListStrValidator(loc, jv)

\* The positions of the members with a key (the texts of the model repeat none).
MemberIndexes(members, key) == {i \in 1..Len(members) : members[i].key = key}
Last(idx) == CHOOSE i \in idx : \A j \in idx : j <= i

\* A field of the schema read from the members: missing when no member has its
\* name, else the validation of that member's value.
ReadField(f, members) ==
  LET idx == MemberIndexes(members, Codes(f.name))
  IN  IF idx = {} THEN FieldErr(<< W(f.name) >>, "missing")
      ELSE Only({ValidateField(f, jv) : jv \in {members[Last(idx)].val}})

\* The errors of all the fields from field i on, in declaration order.
RECURSIVE FieldErrors(_, _, _)
FieldErrors(fields, members, i) ==
  IF i > Len(fields) THEN <<>>
  ELSE ReadField(fields[i], members).errors \o FieldErrors(fields, members, i + 1)

\* An instance that keeps the members its schema does not declare (extra
\* members allowed), after its declared fields.
Instance_AllowExtra(output_model, members) ==
  LET declared == {Codes(output_model.fields[i].name) :
                     i \in 1..Len(output_model.fields)}
      extra == SelectSeq(members, LAMBDA m : m.key \notin declared)
  IN  [t |-> output_model.title,
       fields |-> [i \in 1..Len(output_model.fields) |->
                     [name |-> output_model.fields[i].name,
                      val |-> ReadField(output_model.fields[i], members).val]]
                  \o [i \in 1..Len(extra) |->
                        [name |-> AsciiText(extra[i].key),
                         val |-> PyStr(extra[i].val.cps)]]]

\* An instance of a schema: its fields' validated values, in declaration order.
\* Members the schema does not declare are not part of it.
Instance(output_model, members) ==
  [t |-> output_model.title,
   fields |-> [i \in 1..Len(output_model.fields) |->
                 [name |-> output_model.fields[i].name,
                  val |-> ReadField(output_model.fields[i], members).val]]]

\* What extract returns when no response validated.
None == [t |-> "None", fields |-> <<>>]

\* output_model.model_validate_json(response_text): the instance, or the
\* errors a ValidationError carries: json_invalid for a text that is not JSON,
\* model_type for JSON that is not an object, else the fields' errors.
TopError(type) ==
  [ok |-> FALSE, value |-> None, errors |-> << [loc |-> <<>>, type |-> type] >>]

ValidateMembers(output_model, members, errs) ==
  IF errs = <<>>
  THEN [ok |-> TRUE, value |-> Instance(output_model, members), errors |-> <<>>]
  ELSE [ok |-> FALSE, value |-> None, errors |-> errs]

ValidateParsed(output_model, pj) ==
  IF ~pj.ok THEN TopError("json_invalid")
  ELSE IF ~pj.obj THEN TopError("model_type")
  ELSE Only({ValidateMembers(output_model, pj.members, errs) :
               errs \in {FieldErrors(output_model.fields, pj.members, 1)}})

ModelValidateJson(output_model, response_text) ==
  Only({ValidateParsed(output_model, pj) : pj \in {ParseJson(response_text)}})

\* The text of the errors from error i on: each error's location and type.
RECURSIVE ErrorLines(_, _)
ErrorLines(errors, i) ==
  IF i > Len(errors) THEN <<>>
  ELSE errors[i].loc \o << W(errors[i].type) >> \o ErrorLines(errors, i + 1)

\* str(e) of the ValidationError: the number of errors, the schema's title,
\* then the errors in order.
ErrorText(output_model, errors) ==
  << W(ToString(Len(errors))), W("validation error for"), W(output_model.title) >>
    \o ErrorLines(errors, 1)

\* ------------------------------------------------------------- the prompt

\* The members of a JSON object as tokens, from member i on: each member is a
\* pair of a key and its value's tokens.
RECURSIVE MemberTokens(_, _)
MemberTokens(ms, i) ==
  IF i > Len(ms) THEN <<>>
  ELSE << S(ms[i][1]), P(":") >> \o ms[i][2]
       \o (IF i < Len(ms) THEN << P(",") >> ELSE <<>>)
       \o MemberTokens(ms, i + 1)

\* A JSON object as tokens.
Obj(ms) == << P("{") >> \o MemberTokens(ms, 1) \o << P("}") >>

\* A JSON array of strings as tokens.
RECURSIVE StrItems(_, _)
StrItems(xs, i) ==
  IF i > Len(xs) THEN <<>>
  ELSE << S(xs[i]) >> \o (IF i < Len(xs) THEN << P(",") >> ELSE <<>>)
       \o StrItems(xs, i + 1)

StrArray(xs) == << P("[") >> \o StrItems(xs, 1) \o << P("]") >>

\* A field value written the way Python prints it: True and False for a bool.
DumpValue_PythonRepr(val) ==
  CASE val.t = "int" -> << N(val.i) >>
    [] val.t = "str" -> << S(JsonEscape(val.s)) >>
    [] val.t = "bool" -> << W(IF val.b THEN "True" ELSE "False") >>
    [] val.t = "list" -> StrArray([i \in 1..Len(val.l) |-> JsonEscape(val.l[i])])

\* A validated value as JSON tokens: an int as a number, its decimal numeral;
\* a str as a string, its characters escaped; a bool as true or false; a list
\* of strings as an array.
DumpValue(val) ==
  CASE val.t = "int" -> << N(val.i) >>
    [] val.t = "str" -> << S(JsonEscape(val.s)) >>
    [] val.t = "bool" -> << B(IF val.b THEN "true" ELSE "false") >>
    [] val.t = "list" -> StrArray([i \in 1..Len(val.l) |-> JsonEscape(val.l[i])])

\* extracted_data.model_dump_json(indent=2), the indentation left out: the
\* fields of the instance in declaration order.
ModelDumpJson(inst) ==
  Obj([i \in 1..Len(inst.fields) |->
         << inst.fields[i].name, DumpValue(inst.fields[i].val) >>])

\* The JSON schema of one field: its description, title and type.
FieldJsonSchema(f) ==
  Obj(<< <<"description", << S(f.description) >> >> >>
      \o (IF f.type = "list_str"
          THEN << <<"items", Obj(<< <<"type", << S("string") >> >> >>)>> >>
          ELSE <<>>)
      \o << <<"title", << S(f.title) >> >>,
            <<"type", << S(CASE f.type = "str" -> "string"
                             [] f.type = "int" -> "integer"
                             [] f.type = "bool" -> "boolean"
                             [] f.type = "list_str" -> "array") >> >> >>)

\* json.dumps(output_model.model_json_schema(), indent=2), the indentation left
\* out: the properties in declaration order, the required names, the title.
ModelJsonSchema(output_model) ==
  LET fs == output_model.fields
  IN  Obj(<< <<"properties",
               Obj([i \in 1..Len(fs) |-> << fs[i].name, FieldJsonSchema(fs[i]) >>])>>,
             <<"required", StrArray([i \in 1..Len(fs) |-> fs[i].name])>>,
             <<"title", << S(output_model.title) >> >>,
             <<"type", << S("object") >> >> >>)

\* A template that keeps the first line of the source text only.
EXTRACTION_PROMPT_TEMPLATE_Truncating(schema, text) ==
  << W("You are a highly efficient information extraction assistant."),
     W("You must adhere to the following rules:"),
     W("**Target JSON Schema:**"), W("(json)") >>
    \o schema
    \o << W("Unstructured Source Text:") >>
    \o SubSeq(text, 1, 1)
    \o << W("Now extract the data and return ONLY the JSON object:") >>

\* EXTRACTION_PROMPT_TEMPLATE.format(schema=schema, text=text): the fixed
\* instructions with the schema and the source text in their places.
EXTRACTION_PROMPT_TEMPLATE(schema, text) ==
  << W("You are a highly efficient information extraction assistant."),
     W("You must adhere to the following rules:"),
     W("**Target JSON Schema:**"), W("(json)") >>
    \o schema
    \o << W("Unstructured Source Text:") >>
    \o text
    \o << W("Now extract the data and return ONLY the JSON object:") >>

\* The suffix without the failing output: the error alone.
RetrySuffix_ErrorOnly(response_text, e) ==
  << W("ERROR MESSAGE:") >> \o e
    \o << W("Please correct the output and try again.") >>

\* What a failed attempt appends to the prompt: the failing output and the error.
RetrySuffix(response_text, e) ==
  << W("PREVIOUS FAILED ATTEMPT'S OUTPUT:") >>
    \o response_text
    \o << W("ERROR MESSAGE:") >>
    \o e
    \o << W("Please correct the output and try again.") >>

\* ------------------------------------------------------------- the inputs

\* The source texts extract is called with.
ShortText == << W("Jane is 28 and likes painting and running") >>

Texts ==
  { ShortText,
    << W("My name is Jane Doe, and I live in San Francisco."),
       W("I am 28 years old."), W("I am also a student right now.") >> }

\* A response with all the fields of UserProfile, its age and is_student as given.
ProfileJson(age, is_student) ==
  Obj(<< <<"name", << S("Jane Doe") >> >>,
         <<"age", << age >> >>,
         <<"city", << S("San Francisco") >> >>,
         <<"interests", StrArray(<< "painting", "running" >>)>>,
         <<"is_student", << is_student >> >> >>)

\* A response with a name, an age and interests only.
PersonJson(age) ==
  Obj(<< <<"name", << S("Jane") >> >>,
         <<"age", << age >> >>,
         <<"interests", StrArray(<< "painting", "running" >>)>> >>)

\* A response that has a member no schema declares.
ExtraJson ==
  Obj(<< <<"name", << S("Jane Doe") >> >>,
         <<"age", << N("28") >> >>,
         <<"city", << S("San Francisco") >> >>,
         <<"email", << S("jane@example.com") >> >>,
         <<"interests", StrArray(<< "painting", "running" >>)>>,
         <<"is_student", << B("true") >> >> >>)

\* A response that is prose, not JSON.
ProseText == << W("Sure! Here is the JSON you asked for.") >>

\* The responses the language model gives: conforming, with a number or a bool
\* written as a string, with a string that is no number for the age, with
\* fields missing, with an extra member, prose, blank and empty.
Responses ==
  { ProfileJson(N("28"), B("true")),
    ProfileJson(S("28"), B("true")),
    ProfileJson(N("28"), S("yes")),
    ProfileJson(S("twenty-eight"), B("true")),
    PersonJson(N("28")),
    PersonJson(S("28")),
    ExtraJson,
    ProseText,
    << WS >>,
    << >> }

\* ------------------------------------------------------------- the state

VARIABLES
  max_retries,    \* self.max_retries, set when the agent is constructed
  pc,             \* where extract is: idle, for, chat, validate, returned, raised
  text,           \* the source text extract was called with
  output_model,   \* the schema extract was called with
  prompt,         \* the local prompt: the base prompt and what the retries added
  attempt,        \* the loop variable; at the head of the loop, its next value
  response_text,  \* the response of the latest call of the model
  result,         \* what extract returned
  sent,           \* the prompts the model was called with, in order
  raws,           \* the responses the model gave, in order
  errs            \* the error texts of the failed validations, in order

vars == << max_retries, pc, text, output_model, prompt, attempt, response_text,
           result, sent, raws, errs >>

NoModel == [title |-> "", fields |-> <<>>]

\* The caller's deadline: asyncio.wait_for(agent.extract(...), timeout) around
\* the coroutine extract.
VARIABLES
  timeout_fired   \* the deadline has passed while extract was running

timeoutVars == << timeout_fired >>

\* Two calls of extract running at once, on one agent or on two.
VARIABLES
  agents,         \* the agents: each one its max_retries
  ses             \* the calls: for each one its agent and the locals of extract

sessionVars == << agents, ses >>

\* The script tool (utils/script_tool.py).
VARIABLES
  script_map,     \* self.script_map: script names to the paths of the scripts
  running,        \* the invocations inside subprocess.run: arguments, command
  calls           \* the invocations that returned: arguments, command run, result

scriptVars == << script_map, running, calls >>

\* The batch loops of the two autograders (main of the essay autograder and
\* of the coding autograder).
VARIABLES
  grader,         \* which autograder runs: essay or coding
  items,          \* the number of essays or submissions loaded
  cursor,         \* the item the loop is at, from 1
  batch_pc,       \* where main is: load, exited, loop, try, except, done, raised
  attempted,      \* the items grading was started for, in order
  reports         \* the report files written, in order

batchVars == << grader, items, cursor, batch_pc, attempted, reports >>

\* _run_coro_in_new_loop of web_search_tool.py: a coroutine run on a thread of
\* its own, the caller joining the thread.
VARIABLES
  coro,              \* the coroutine given: how it ends and with what
  caller_pc,         \* the calling thread: idle, joining
  thread_pc,         \* the thread of the runner: none, running, finished
  result_container,  \* the dict the runner puts the result in
  exc_container,     \* the dict the runner puts a caught exception in
  uses               \* the calls that have ended: coroutine and outcome

coroVars == << coro, caller_pc, thread_pc, result_container, exc_container, uses >>

\* main of the coding autograder: its arguments and how far it got.
VARIABLES
  run_tests,         \* the run_tests argument of main
  tests_path,        \* the tests_path argument of main: a path or None
  rubric_loads,      \* process_file of the rubric gives some content
  tests_load,        \* process_file of the tests gives some content
  submissions,       \* the number of submissions load_documents_from_folder gives
  main_pc,           \* where main is
  committees         \* the workers of each grading run, in order

codingVars == << run_tests, tests_path, rubric_loads, tests_load, submissions,
                 main_pc, committees >>

\* The chunking loops: split_text and DocumentProcessor._chunk_text.
VARIABLES
  chunker,           \* which loop runs: split_text or _chunk_text
  units,             \* the text: its characters (split_text) or words (_chunk_text)
  chunk_size,
  chunk_overlap,
  start,             \* the loop variable (start, or i in _chunk_text)
  chunks,            \* the chunks collected so far
  iterations,        \* the iterations of the loop so far
  chunk_pc           \* where the function is: entry, while, returned

chunkVars == << chunker, units, chunk_size, chunk_overlap, start, chunks,
                iterations, chunk_pc >>

\* A response validated (line 127), the instance written with model_dump_json
\* (line 175), and what is written validated against the same schema again.
VARIABLES
  rt_model,          \* the schema: output_model of line 127
  candidate,         \* the text given to model_validate_json
  validated_output,  \* the instance model_validate_json returned
  dumped,            \* what model_dump_json wrote for the instance
  revalidated,       \* the outcome of validating what was written
  rt_pc              \* how far it got: validate, refused, dump, revalidate, done

roundTripVars == << rt_model, candidate, validated_output, dumped, revalidated, rt_pc >>

NoCoro ==
  /\ coro = "none" /\ caller_pc = "none" /\ thread_pc = "none"
  /\ result_container = <<>> /\ exc_container = <<>> /\ uses = <<>>
NoCoding ==
  /\ run_tests = FALSE /\ tests_path = "None" /\ rubric_loads = FALSE
  /\ tests_load = FALSE /\ submissions = 0 /\ main_pc = "none"
  /\ committees = <<>>
NoChunking ==
  /\ chunker = "none" /\ units = <<>> /\ chunk_size = 0 /\ chunk_overlap = 0
  /\ start = 0 /\ chunks = <<>> /\ iterations = 0 /\ chunk_pc = "none"
NoRoundTrip ==
  /\ rt_model = [title |-> "", fields |-> <<>>] /\ candidate = <<>>
  /\ validated_output = [t |-> "None", fields |-> <<>>] /\ dumped = <<>>
  /\ revalidated = [ok |-> FALSE, value |-> [t |-> "None", fields |-> <<>>],
                    errors |-> <<>>]
  /\ rt_pc = "none"
NoUtilities == NoCoro /\ NoCoding /\ NoChunking /\ NoRoundTrip

\* Nothing but one call of extract on one agent is running.
NoSessions == agents = <<>> /\ ses = <<>>
NoTimeout == timeout_fired = FALSE
NoScriptTool == script_map = <<>> /\ running = <<>> /\ calls = <<>>
NoBatch ==
  /\ grader = "none" /\ items = 0 /\ cursor = 0 /\ batch_pc = "none"
  /\ attempted = <<>> /\ reports = <<>>

\* What a step of the single call of extract leaves alone.
notAgentVars ==
  << timeoutVars, sessionVars, scriptVars, batchVars, coroVars, codingVars, chunkVars,
     roundTripVars >>

allvars ==
  << vars, timeoutVars, sessionVars, scriptVars, batchVars, coroVars, codingVars,
     chunkVars, roundTripVars >>

\* An agent is constructed with a retry budget, which nothing checks; extract
\* has not been called yet.
Init ==
  /\ max_retries \in -1..MaxRetries
  /\ pc = "idle"
  /\ text = <<>>
  /\ output_model = NoModel
  /\ prompt = <<>>
  /\ attempt = 0
  /\ response_text = <<>>
  /\ result = None
  /\ sent = <<>>
  /\ raws = <<>>
  /\ errs = <<>>
  /\ NoTimeout
  /\ NoUtilities
  /\ NoSessions
  /\ NoScriptTool
  /\ NoBatch

\* extract(text, output_model) is called: the schema is rendered and the base
\* prompt built from the template.
Extract(t, m) ==
  /\ pc = "idle"
  /\ text' = t
  /\ output_model' = m
  /\ prompt' = EXTRACTION_PROMPT_TEMPLATE(ModelJsonSchema(m), t)
  /\ attempt' = 0
  /\ pc' = "for"
  /\ UNCHANGED << max_retries, response_text, result, sent, raws, errs >>

\* The head of a loop that runs once too often: range(max_retries + 1).
ForLoop_OffByOne ==
  /\ pc = "for"
  /\ attempt < max_retries + 1
  /\ pc' = "chat"
  /\ UNCHANGED << max_retries, text, output_model, prompt, attempt,
                  response_text, result, sent, raws, errs >>

\* The head of a loop that does not wait for the validation: the next
\* invocation is dispatched as soon as a response has arrived.
ForLoop_BeforeValidation ==
  /\ pc \in {"for", "validate"}
  /\ attempt < max_retries
  /\ pc' = "chat"
  /\ UNCHANGED << max_retries, text, output_model, prompt, attempt,
                  response_text, result, sent, raws, errs >>

\* The head of a loop that tests its budget after the first attempt only.
ForLoop_AtLeastOnce ==
  /\ pc = "for"
  /\ attempt < max_retries \/ attempt = 0
  /\ pc' = "chat"
  /\ UNCHANGED << max_retries, text, output_model, prompt, attempt,
                  response_text, result, sent, raws, errs >>

\* The head of the loop: range(max_retries) has another index.
ForLoop ==
  /\ pc = "for"
  /\ attempt < max_retries
  /\ pc' = "chat"
  /\ UNCHANGED << max_retries, text, output_model, prompt, attempt,
                  response_text, result, sent, raws, errs >>

\* A return of None that needs the budget to be exceeded, not reached.
ReturnNone_Strict ==
  /\ pc = "for"
  /\ attempt > max_retries
  /\ result' = None
  /\ pc' = "returned"
  /\ UNCHANGED << max_retries, text, output_model, prompt, attempt,
                  response_text, sent, raws, errs >>

\* A return of None one attempt early: range(max_retries - 1) is over.
ReturnNone_Early ==
  /\ pc = "for"
  /\ attempt >= max_retries - 1
  /\ result' = None
  /\ pc' = "returned"
  /\ UNCHANGED << max_retries, text, output_model, prompt, attempt,
                  response_text, sent, raws, errs >>

\* The loop is over without a return: extract returns None.
ReturnNone ==
  /\ pc = "for"
  /\ attempt >= max_retries
  /\ result' = None
  /\ pc' = "returned"
  /\ UNCHANGED << max_retries, text, output_model, prompt, attempt,
                  response_text, sent, raws, errs >>

\* self.llm.chat is called with the prompt and returns the response r.
ChatReturns(r) ==
  /\ pc = "chat"
  /\ sent' = Append(sent, prompt)
  /\ response_text' = r
  /\ raws' = Append(raws, r)
  /\ pc' = "validate"
  /\ UNCHANGED << max_retries, text, output_model, prompt, attempt, result, errs >>

\* The call of the model inside the try statement, its exception caught like a
\* validation error: the loop goes on.
ChatRaises_Caught ==
  /\ pc = "chat"
  /\ sent' = Append(sent, prompt)
  /\ attempt' = attempt + 1
  /\ pc' = "for"
  /\ UNCHANGED << max_retries, text, output_model, prompt, response_text,
                  result, raws, errs >>

\* self.llm.chat is called with the prompt and raises: the call is outside the
\* try statement, so the exception leaves extract.
ChatRaises ==
  /\ pc = "chat"
  /\ sent' = Append(sent, prompt)
  /\ pc' = "raised"
  /\ UNCHANGED << max_retries, text, output_model, prompt, attempt,
                  response_text, result, raws, errs >>

\* A valid response without the return statement: the loop goes on.
ValidationSuccessful_NoReturn ==
  /\ pc = "validate"
  /\ ModelValidateJson(output_model, response_text).ok
  /\ attempt' = attempt + 1
  /\ pc' = "for"
  /\ UNCHANGED << max_retries, text, output_model, prompt, response_text,
                  result, sent, raws, errs >>

\* A valid response kept in a variable instead of returned at once: it is
\* returned when it was the last attempt, else the loop goes on.
ValidationSuccessful_Continue ==
  /\ pc = "validate"
  /\ ModelValidateJson(output_model, response_text).ok
  /\ result' = ModelValidateJson(output_model, response_text).value
  /\ attempt' = attempt + 1
  /\ pc' = IF attempt + 1 < max_retries THEN "for" ELSE "returned"
  /\ UNCHANGED << max_retries, text, output_model, prompt, response_text,
                  sent, raws, errs >>

\* The response validates: extract returns the instance.
ValidationSuccessful ==
  /\ pc = "validate"
  /\ ModelValidateJson(output_model, response_text).ok
  /\ result' = ModelValidateJson(output_model, response_text).value
  /\ pc' = "returned"
  /\ UNCHANGED << max_retries, text, output_model, prompt, attempt,
                  response_text, sent, raws, errs >>

\* A failed validation with no except clause: the ValidationError leaves extract.
ValidationFailed_Raises ==
  /\ pc = "validate"
  /\ ~ModelValidateJson(output_model, response_text).ok
  /\ pc' = "raised"
  /\ UNCHANGED << max_retries, text, output_model, prompt, attempt,
                  response_text, result, sent, raws, errs >>

\* A failed validation that adds to the prompt only when an attempt is left:
\* the last attempt's output and error are appended nowhere.
ValidationFailed_SkipsLast ==
  /\ pc = "validate"
  /\ ~ModelValidateJson(output_model, response_text).ok
  /\ LET e == ErrorText(output_model,
                        ModelValidateJson(output_model, response_text).errors)
     IN  IF attempt + 1 < max_retries
         THEN /\ prompt' = prompt \o RetrySuffix(response_text, e)
              /\ errs' = Append(errs, e)
         ELSE UNCHANGED << prompt, errs >>
  /\ attempt' = attempt + 1
  /\ pc' = "for"
  /\ UNCHANGED << max_retries, text, output_model, response_text, result,
                  sent, raws >>

\* A failed validation that builds the next prompt from the base prompt and
\* this attempt alone, dropping what the earlier attempts added.
ValidationFailed_FromBase ==
  /\ pc = "validate"
  /\ ~ModelValidateJson(output_model, response_text).ok
  /\ LET e == ErrorText(output_model,
                        ModelValidateJson(output_model, response_text).errors)
     IN  /\ prompt' = EXTRACTION_PROMPT_TEMPLATE(ModelJsonSchema(output_model), text)
                        \o RetrySuffix(response_text, e)
         /\ errs' = Append(errs, e)
  /\ attempt' = attempt + 1
  /\ pc' = "for"
  /\ UNCHANGED << max_retries, text, output_model, response_text, result,
                  sent, raws >>

\* A failed validation that puts the output and the error before the prompt.
ValidationFailed_Prepends ==
  /\ pc = "validate"
  /\ ~ModelValidateJson(output_model, response_text).ok
  /\ LET e == ErrorText(output_model,
                        ModelValidateJson(output_model, response_text).errors)
     IN  /\ prompt' = RetrySuffix(response_text, e) \o prompt
         /\ errs' = Append(errs, e)
  /\ attempt' = attempt + 1
  /\ pc' = "for"
  /\ UNCHANGED << max_retries, text, output_model, response_text, result,
                  sent, raws >>

\* A failed validation whose handler catches schema violations only: a
\* response that is not JSON raises out of extract.
ValidationFailed_ParseErrorRaises ==
  /\ pc = "validate"
  /\ ~ModelValidateJson(output_model, response_text).ok
  /\ LET errors == ModelValidateJson(output_model, response_text).errors
         e == ErrorText(output_model, errors)
     IN  IF errors[1].type = "json_invalid"
         THEN /\ pc' = "raised"
              /\ UNCHANGED << prompt, errs, attempt >>
         ELSE /\ prompt' = prompt \o RetrySuffix(response_text, e)
              /\ errs' = Append(errs, e)
              /\ attempt' = attempt + 1
              /\ pc' = "for"
  /\ UNCHANGED << max_retries, text, output_model, response_text, result,
                  sent, raws >>

\* The response does not validate: the failing output and the error are added
\* to the prompt, and the loop goes on.
ValidationFailed ==
  /\ pc = "validate"
  /\ ~ModelValidateJson(output_model, response_text).ok
  /\ LET e == ErrorText(output_model,
                        ModelValidateJson(output_model, response_text).errors)
     IN  /\ prompt' = prompt \o RetrySuffix(response_text, e)
         /\ errs' = Append(errs, e)
  /\ attempt' = attempt + 1
  /\ pc' = "for"
  /\ UNCHANGED << max_retries, text, output_model, response_text, result,
                  sent, raws >>

Next ==
  \/ (\E t \in Texts, m \in Schemas : Extract(t, m)) /\ UNCHANGED notAgentVars
  \/ ForLoop /\ UNCHANGED notAgentVars
  \/ ReturnNone /\ UNCHANGED notAgentVars
  \/ (\E r \in Responses : ChatReturns(r)) /\ UNCHANGED notAgentVars
  \/ ChatRaises /\ UNCHANGED notAgentVars
  \/ ValidationSuccessful /\ UNCHANGED notAgentVars
  \/ ValidationFailed /\ UNCHANGED notAgentVars

Spec == Init /\ [][Next]_allvars

\* The steps of a call of extract that is under way: the head of the loop,
\* the invocation of the model, the validation of its response.
LoopStep == (ForLoop \/ ReturnNone) /\ UNCHANGED notAgentVars
ChatStep ==
  ((\E r \in Responses : ChatReturns(r)) \/ ChatRaises) /\ UNCHANGED notAgentVars
ValidationStep ==
  (ValidationSuccessful \/ ValidationFailed) /\ UNCHANGED notAgentVars

\* The single call of extract with its steps taken eventually: the
\* interpreter goes on running extract, every invocation of the model returns
\* or raises, and every validation ends.  The third condition is the weak
\* fairness of ValidationStep with its enabling condition, pc = "validate",
\* written out.
FairSpec ==
  /\ Init /\ [][Next]_allvars
  /\ WF_allvars(LoopStep)
  /\ WF_allvars(ChatStep)
  /\ ([]<>(pc # "validate") \/ []<><<ValidationStep>>_allvars)

\* --------------------------------------------------- the caller's deadline

\* The deadline passes while self.llm.chat is running.  extract is a coroutine
\* that calls self.llm.chat as a plain blocking call and awaits nothing: the
\* event loop gets no turn in which to cancel it, and the call goes on.
TimeoutFires ==
  /\ pc = "chat"
  /\ ~timeout_fired
  /\ timeout_fired' = TRUE
  /\ UNCHANGED vars

NextTimeout ==
  \/ Next
  \/ TimeoutFires
       /\ UNCHANGED << sessionVars, scriptVars, batchVars, coroVars, codingVars,
                       chunkVars, roundTripVars >>

SpecTimeout == Init /\ [][NextTimeout]_allvars

\* ------------------------------------------- two calls of extract at once

SessionIds == 1..2
AgentIds == 1..2

\* What the model answers to the calls running at once: a profile, a person
\* (no city, no is_student) and a text that is not JSON.
SessionResponses == { ProfileJson(N("28"), B("true")), PersonJson(N("28")), ProseText }

\* The locals of a call of extract that has not started.
IdleSession ==
  [agent |-> 0, pc |-> "idle", text |-> <<>>, output_model |-> NoModel,
   prompt |-> <<>>, attempt |-> 0, response_text |-> <<>>, result |-> None,
   sent |-> <<>>, raws |-> <<>>]

\* The agents a call may run on: the first call on the first agent, the second
\* on either.
SessionAgents(i) == IF i = 1 THEN {1} ELSE AgentIds

\* Two agents are constructed, each with its budget; no call has started.
SessionsInit ==
  /\ agents = [a \in AgentIds |->
                 IF a = 1 THEN MaxSessionRetries ELSE MaxSessionRetries - 1]
  /\ ses = [i \in SessionIds |-> IdleSession]
  /\ max_retries = 0
  /\ pc = "idle"
  /\ text = <<>>
  /\ output_model = NoModel
  /\ prompt = <<>>
  /\ attempt = 0
  /\ response_text = <<>>
  /\ result = None
  /\ sent = <<>>
  /\ raws = <<>>
  /\ errs = <<>>
  /\ NoTimeout
  /\ NoUtilities
  /\ NoScriptTool
  /\ NoBatch

\* Call i is extract(t, m) on agent a: its own prompt is built.
SExtract(i, a, t, m) ==
  /\ ses[i].pc = "idle"
  /\ ses' = [ses EXCEPT ![i] =
               [@ EXCEPT !.agent = a, !.text = t, !.output_model = m,
                         !.prompt = EXTRACTION_PROMPT_TEMPLATE(ModelJsonSchema(m), t),
                         !.attempt = 0, !.pc = "for"]]
  /\ UNCHANGED agents

\* The head of the loop of call i: range(self.max_retries) has another index.
SForLoop(i) ==
  /\ ses[i].pc = "for"
  /\ ses[i].attempt < agents[ses[i].agent]
  /\ ses' = [ses EXCEPT ![i].pc = "chat"]
  /\ UNCHANGED agents

\* The loop of call i is exhausted: return None.
SReturnNone(i) ==
  /\ ses[i].pc = "for"
  /\ ses[i].attempt >= agents[ses[i].agent]
  /\ ses' = [ses EXCEPT ![i] = [@ EXCEPT !.result = None, !.pc = "returned"]]
  /\ UNCHANGED agents

\* self.llm.chat of call i returns r.
SChatReturns(i, r) ==
  /\ ses[i].pc = "chat"
  /\ ses' = [ses EXCEPT ![i] =
               [@ EXCEPT !.sent = Append(@, ses[i].prompt), !.response_text = r,
                         !.raws = Append(@, r), !.pc = "validate"]]
  /\ UNCHANGED agents

\* self.llm.chat of call i raises: the exception leaves extract.
SChatRaises(i) ==
  /\ ses[i].pc = "chat"
  /\ ses' = [ses EXCEPT ![i] =
               [@ EXCEPT !.sent = Append(@, ses[i].prompt), !.pc = "raised"]]
  /\ UNCHANGED agents

\* The response of call i validates: the instance is returned.
SValidationSuccessful(i) ==
  /\ ses[i].pc = "validate"
  /\ ModelValidateJson(ses[i].output_model, ses[i].response_text).ok
  /\ ses' = [ses EXCEPT ![i] =
               [@ EXCEPT !.result = ModelValidateJson(ses[i].output_model,
                                                       ses[i].response_text).value,
                         !.pc = "returned"]]
  /\ UNCHANGED agents

\* A failed validation that keeps the prompt on the agent: the output and the
\* error are added to the prompt of every call running on that agent.
SValidationFailed_SharedPrompt(i) ==
  /\ ses[i].pc = "validate"
  /\ ~ModelValidateJson(ses[i].output_model, ses[i].response_text).ok
  /\ LET e == ErrorText(ses[i].output_model,
                        ModelValidateJson(ses[i].output_model,
                                          ses[i].response_text).errors)
         suffix == RetrySuffix(ses[i].response_text, e)
     IN  ses' = [j \in SessionIds |->
                   IF j = i
                   THEN [ses[j] EXCEPT !.prompt = @ \o suffix,
                                       !.attempt = @ + 1, !.pc = "for"]
                   ELSE IF ses[j].agent = ses[i].agent
                        THEN [ses[j] EXCEPT !.prompt = @ \o suffix]
                        ELSE ses[j]]
  /\ UNCHANGED agents

\* The response of call i does not validate: the output and the error are
\* added to the prompt of call i, a local of that call.
SValidationFailed(i) ==
  /\ ses[i].pc = "validate"
  /\ ~ModelValidateJson(ses[i].output_model, ses[i].response_text).ok
  /\ LET e == ErrorText(ses[i].output_model,
                        ModelValidateJson(ses[i].output_model,
                                          ses[i].response_text).errors)
     IN  ses' = [ses EXCEPT ![i] =
                   [@ EXCEPT !.prompt = @ \o RetrySuffix(ses[i].response_text, e),
                             !.attempt = @ + 1, !.pc = "for"]]
  /\ UNCHANGED agents

notSessionVars ==
  << vars, timeoutVars, scriptVars, batchVars, coroVars, codingVars, chunkVars,
     roundTripVars >>

NextSessions ==
  \/ (\E i \in SessionIds, m \in Schemas :
        \E a \in SessionAgents(i) : SExtract(i, a, ShortText, m))
       /\ UNCHANGED notSessionVars
  \/ (\E i \in SessionIds : SForLoop(i)) /\ UNCHANGED notSessionVars
  \/ (\E i \in SessionIds : SReturnNone(i)) /\ UNCHANGED notSessionVars
  \/ (\E i \in SessionIds, r \in SessionResponses : SChatReturns(i, r))
       /\ UNCHANGED notSessionVars
  \/ (\E i \in SessionIds : SChatRaises(i)) /\ UNCHANGED notSessionVars
  \/ (\E i \in SessionIds : SValidationSuccessful(i)) /\ UNCHANGED notSessionVars
  \/ (\E i \in SessionIds : SValidationFailed(i)) /\ UNCHANGED notSessionVars

SpecSessions == SessionsInit /\ [][NextSessions]_allvars

\* ---------------------------------------------------------- the script tool

\* A string of the script tool is the sequence of its characters; QUOTE and
\* DQUOTE stand for the single and the double quote character.
QUOTE == "QUOTE"
DQUOTE == "DQUOTE"

\* The characters shlex.quote leaves alone: word characters (the ASCII letters
\* of both cases, the digits, the underscore) and @%+=:,./-
SafeChars ==
  { "A", "B", "C", "D", "E", "F", "G", "H", "I", "J", "K", "L", "M", "N", "O",
    "P", "Q", "R", "S", "T", "U", "V", "W", "X", "Y", "Z",
    "a", "b", "c", "d", "e", "f", "g", "h", "i", "j", "k", "l", "m", "n", "o",
    "p", "q", "r", "s", "t", "u", "v", "w", "x", "y", "z", "0", "1", "2", "3",
    "4", "5", "6", "7", "8", "9", "_", "@", "%", "+", "=", ":", ",", ".", "/",
    "-" }

\* s.replace of the single quote by the sequence quote, double quote, quote,
\* double quote, quote.
RECURSIVE EscapeQuotes(_)
EscapeQuotes(str) ==
  IF str = <<>> THEN <<>>
  ELSE (IF Head(str) = QUOTE THEN << QUOTE, DQUOTE, QUOTE, DQUOTE, QUOTE >>
        ELSE << Head(str) >>) \o EscapeQuotes(Tail(str))

\* shlex.quote: the empty string becomes two quotes, a string of safe
\* characters is returned as it is, any other is put between single quotes.
ShlexQuote(str) ==
  IF str = <<>> THEN << QUOTE, QUOTE >>
  ELSE IF \A i \in 1..Len(str) : str[i] \in SafeChars THEN str
  ELSE << QUOTE >> \o EscapeQuotes(str) \o << QUOTE >>

\* The paths of two approved scripts, the second in a directory whose name
\* has a space, and the script maps a tool is constructed with.
ListPath == << "/", "b", "i", "n", "/", "l", "s" >>
ReportPath == << "/", "o", "p", "t", "/", "m", "y", " ", "s", "/", "r" >>

ScriptMaps ==
  { [n \in {"list"} |-> ListPath],
    [n \in {"list", "report"} |-> IF n = "list" THEN ListPath ELSE ReportPath] }

\* arguments.get("script_name"): approved names, a name not approved, no name.
ScriptNames == { "list", "report", "rm", "None" }

\* arguments.get("args", []): no args, a list of strings, a list of one empty
\* string, a single string.
ArgsPayloads ==
  { [kind |-> "absent", v |-> <<>>],
    [kind |-> "list", v |-> << <<>> >>],
    [kind |-> "list", v |-> << << "-", "l" >>, << "a", " ", "b" >> >>],
    [kind |-> "str", v |-> << "i", "t", QUOTE, "s" >>] }

\* The list of arguments invoke hands to _run_script.
ArgsList(payload) ==
  IF payload.kind = "str" THEN << payload.v >> ELSE payload.v

\* The values of a function.
Range(f) == {f[x] : x \in DOMAIN f}

\* What _run returns as the return code: that of the program subprocess.run
\* started from the command (whatever file the first element names, the quotes
\* of shlex.quote being part of the name), zero or not, or -1 when the program
\* timed out or subprocess.run could not start it.
ReturnCodes(command) == (-1)..MaxReturnCode

\* A tool is constructed with its script map.
ScriptInit ==
  /\ script_map \in ScriptMaps
  /\ running = <<>>
  /\ calls = <<>>
  /\ max_retries = 0
  /\ pc = "idle"
  /\ text = <<>>
  /\ output_model = NoModel
  /\ prompt = <<>>
  /\ attempt = 0
  /\ response_text = <<>>
  /\ result = None
  /\ sent = <<>>
  /\ raws = <<>>
  /\ errs = <<>>
  /\ NoTimeout
  /\ NoUtilities
  /\ NoSessions
  /\ NoBatch

\* invoke(arguments) with a script name that is not approved: an error result,
\* no command is run.
InvokeNotApproved(script_name, payload) ==
  /\ Len(calls) + Len(running) < MaxInvocations
  /\ script_name \notin DOMAIN script_map
  /\ calls' = Append(calls, [script_name |-> script_name, args |-> ArgsList(payload),
                            ran |-> FALSE, command |-> <<>>,
                            status |-> "error", returncode |-> 0])
  /\ UNCHANGED << script_map, running >>

\* invoke(arguments) with an approved name, up to the call of subprocess.run:
\* the command is the path and the args, each one through shlex.quote, run
\* without a shell.  The caller waits in subprocess.run; other callers go on.
InvokeApproved(script_name, payload) ==
  /\ Len(calls) + Len(running) < MaxInvocations
  /\ script_name \in DOMAIN script_map
  /\ LET path == script_map[script_name]
         unquoted == << path >> \o ArgsList(payload)
         command == [i \in 1..Len(unquoted) |-> ShlexQuote(unquoted[i])]
     IN  running' = Append(running, [script_name |-> script_name,
                                     args |-> ArgsList(payload),
                                     command |-> command])
  /\ UNCHANGED << script_map, calls >>

\* subprocess.run of the k-th waiting invocation ends (the program exits, the
\* timeout passes, or the program cannot be started): _run returns the return
\* code and _run_script a result that is a success whatever the return code.
RunReturns(k, rc) ==
  /\ k \in 1..Len(running)
  /\ rc \in ReturnCodes(running[k].command)
  /\ calls' = Append(calls, [script_name |-> running[k].script_name,
                            args |-> running[k].args,
                            ran |-> TRUE, command |-> running[k].command,
                            status |-> "success", returncode |-> rc])
  /\ running' = [i \in 1..(Len(running) - 1) |->
                   IF i < k THEN running[i] ELSE running[i + 1]]
  /\ UNCHANGED script_map

notScriptVars ==
  << vars, timeoutVars, sessionVars, batchVars, coroVars, codingVars, chunkVars,
     roundTripVars >>

NextScript ==
  \/ (\E n \in ScriptNames, a \in ArgsPayloads : InvokeNotApproved(n, a))
       /\ UNCHANGED notScriptVars
  \/ (\E n \in ScriptNames, a \in ArgsPayloads : InvokeApproved(n, a))
       /\ UNCHANGED notScriptVars
  \/ (\E k \in 1..MaxInvocations, rc \in (-1)..MaxReturnCode : RunReturns(k, rc))
       /\ UNCHANGED notScriptVars

SpecScript == ScriptInit /\ [][NextScript]_allvars

\* ------------------------------------------------ the autograders' batches

Graders == { "essay", "coding" }

\* main has loaded the rubric and the items and is at the test of the list of
\* items, before its loop.
BatchInit ==
  /\ grader \in Graders
  /\ items \in 0..MaxItems
  /\ cursor = 1
  /\ batch_pc = "load"
  /\ attempted = <<>>
  /\ reports = <<>>
  /\ max_retries = 0
  /\ pc = "idle"
  /\ text = <<>>
  /\ output_model = NoModel
  /\ prompt = <<>>
  /\ attempt = 0
  /\ response_text = <<>>
  /\ result = None
  /\ sent = <<>>
  /\ raws = <<>>
  /\ errs = <<>>
  /\ NoTimeout
  /\ NoUtilities
  /\ NoSessions
  /\ NoScriptTool

\* The list of items is empty: main logs a warning and returns; the loop is
\* not reached and the batch is not logged as complete.
NoItemsFound ==
  /\ batch_pc = "load"
  /\ items = 0
  /\ batch_pc' = "exited"
  /\ UNCHANGED << grader, items, cursor, attempted, reports >>

\* The list of items is not empty: main goes on to its loop.
ItemsFound ==
  /\ batch_pc = "load"
  /\ items > 0
  /\ batch_pc' = "loop"
  /\ UNCHANGED << grader, items, cursor, attempted, reports >>

\* The loop takes its next item and enters the try statement: grading starts.
NextItem ==
  /\ batch_pc = "loop"
  /\ cursor <= items
  /\ attempted' = Append(attempted, cursor)
  /\ batch_pc' = "try"
  /\ UNCHANGED << grader, items, cursor, reports >>

\* The list is exhausted: main logs that the batch is complete and returns.
BatchComplete ==
  /\ batch_pc = "loop"
  /\ cursor > items
  /\ batch_pc' = "done"
  /\ UNCHANGED << grader, items, cursor, attempted, reports >>

\* The item is graded and its report written: on to the next item.
ReportSaved ==
  /\ batch_pc = "try"
  /\ reports' = Append(reports, [item |-> cursor, kind |-> "grade"])
  /\ cursor' = cursor + 1
  /\ batch_pc' = "loop"
  /\ UNCHANGED << grader, items, attempted >>

\* A statement of the try block raises an Exception (the grading, the
\* formatting of the report, or the writing of the report file): the handler
\* is entered.
ItemFails ==
  /\ batch_pc = "try"
  /\ batch_pc' = "except"
  /\ UNCHANGED << grader, items, cursor, attempted, reports >>

\* The try block raises what is no Exception (the CancelledError of a
\* cancelled task at the await of the grading, a KeyboardInterrupt): the
\* handler is not entered, the exception leaves main.
ItemInterrupted ==
  /\ batch_pc = "try"
  /\ batch_pc' = "raised"
  /\ UNCHANGED << grader, items, cursor, attempted, reports >>

\* The handler of the coding autograder logs the error: on to the next item.
ErrorLogged ==
  /\ batch_pc = "except"
  /\ grader = "coding"
  /\ cursor' = cursor + 1
  /\ batch_pc' = "loop"
  /\ UNCHANGED << grader, items, attempted, reports >>

\* The handler of the essay autograder logs the error and writes an error
\* report: on to the next item.
ErrorReportSaved ==
  /\ batch_pc = "except"
  /\ grader = "essay"
  /\ reports' = Append(reports, [item |-> cursor, kind |-> "error"])
  /\ cursor' = cursor + 1
  /\ batch_pc' = "loop"
  /\ UNCHANGED << grader, items, attempted >>

\* The write_text of the error report raises inside the handler of the essay
\* autograder: nothing catches it, the exception leaves main.
ErrorReportFails ==
  /\ batch_pc = "except"
  /\ grader = "essay"
  /\ batch_pc' = "raised"
  /\ UNCHANGED << grader, items, cursor, attempted, reports >>

notBatchVars ==
  << vars, timeoutVars, sessionVars, scriptVars, coroVars, codingVars, chunkVars,
     roundTripVars >>

NextBatch ==
  \/ NoItemsFound /\ UNCHANGED notBatchVars
  \/ ItemsFound /\ UNCHANGED notBatchVars
  \/ NextItem /\ UNCHANGED notBatchVars
  \/ BatchComplete /\ UNCHANGED notBatchVars
  \/ ReportSaved /\ UNCHANGED notBatchVars
  \/ ItemFails /\ UNCHANGED notBatchVars
  \/ ItemInterrupted /\ UNCHANGED notBatchVars
  \/ ErrorLogged /\ UNCHANGED notBatchVars
  \/ ErrorReportSaved /\ UNCHANGED notBatchVars
  \/ ErrorReportFails /\ UNCHANGED notBatchVars

SpecBatch == BatchInit /\ [][NextBatch]_allvars

\* ------------------------------------------------ a coroutine on a thread

\* No call of extract, no session, no script tool and no batch is running.
NoExtraction ==
  /\ max_retries = 0
  /\ pc = "idle"
  /\ text = <<>>
  /\ output_model = NoModel
  /\ prompt = <<>>
  /\ attempt = 0
  /\ response_text = <<>>
  /\ result = None
  /\ sent = <<>>
  /\ raws = <<>>
  /\ errs = <<>>
  /\ NoTimeout
  /\ NoSessions
  /\ NoScriptTool
  /\ NoBatch

\* The coroutines given: one returns a value (the results of a search, or
\* None), one raises an Exception (the ValueError of _run for an empty query, a
\* RuntimeError), one raises a BaseException that is not an Exception (it is
\* cancelled, or the interpreter is told to exit).
Coros ==
  { [kind |-> "returns", v |-> "results"],
    [kind |-> "returns", v |-> "None"],
    [kind |-> "raises", v |-> "ValueError"],
    [kind |-> "raises", v |-> "RuntimeError"],
    [kind |-> "raises_base", v |-> "CancelledError"],
    [kind |-> "raises_base", v |-> "SystemExit"] }

CoroInit ==
  /\ coro = "none"
  /\ caller_pc = "idle"
  /\ thread_pc = "none"
  /\ result_container = <<>>
  /\ exc_container = <<>>
  /\ uses = <<>>
  /\ NoExtraction
  /\ NoCoding
  /\ NoChunking
  /\ NoRoundTrip

\* _run_coro_in_new_loop(c) is called: the containers are empty, the thread is
\* started and the caller waits in t.join().
CoroStart(c) ==
  /\ caller_pc = "idle"
  /\ Len(uses) < MaxUses
  /\ coro' = c
  /\ result_container' = <<>>
  /\ exc_container' = <<>>
  /\ thread_pc' = "running"
  /\ caller_pc' = "joining"
  /\ UNCHANGED uses

\* The coroutine returns: the runner stores the result and the thread ends.
RunnerCompletes ==
  /\ thread_pc = "running"
  /\ coro.kind = "returns"
  /\ result_container' = << coro.v >>
  /\ thread_pc' = "finished"
  /\ UNCHANGED << coro, caller_pc, exc_container, uses >>

\* The coroutine raises an Exception: the runner stores it and the thread ends.
RunnerCatches ==
  /\ thread_pc = "running"
  /\ coro.kind = "raises"
  /\ exc_container' = << coro.v >>
  /\ thread_pc' = "finished"
  /\ UNCHANGED << coro, caller_pc, result_container, uses >>

\* The coroutine raises a BaseException that is not an Exception: except
\* Exception does not match it, nothing is stored, and it ends the thread.
RunnerDies ==
  /\ thread_pc = "running"
  /\ coro.kind = "raises_base"
  /\ thread_pc' = "finished"
  /\ UNCHANGED << coro, caller_pc, result_container, exc_container, uses >>

\* t.join() returns and an exception was stored: it is raised in the caller.
JoinRaises ==
  /\ caller_pc = "joining"
  /\ thread_pc = "finished"
  /\ exc_container # <<>>
  /\ uses' = Append(uses, [coro |-> coro, how |-> "raised", v |-> exc_container[1]])
  /\ caller_pc' = "idle"
  /\ thread_pc' = "none"
  /\ UNCHANGED << coro, result_container, exc_container >>

\* t.join() returns and no exception was stored: result_container.get("result")
\* is returned, None when the runner stored nothing.
JoinReturns ==
  /\ caller_pc = "joining"
  /\ thread_pc = "finished"
  /\ exc_container = <<>>
  /\ uses' = Append(uses, [coro |-> coro, how |-> "returned",
                          v |-> IF result_container = <<>> THEN "None"
                                ELSE result_container[1]])
  /\ caller_pc' = "idle"
  /\ thread_pc' = "none"
  /\ UNCHANGED << coro, result_container, exc_container >>

notCoroVars ==
  << vars, timeoutVars, sessionVars, scriptVars, batchVars, codingVars, chunkVars,
     roundTripVars >>

NextCoro ==
  \/ (\E c \in Coros : CoroStart(c)) /\ UNCHANGED notCoroVars
  \/ RunnerCompletes /\ UNCHANGED notCoroVars
  \/ RunnerCatches /\ UNCHANGED notCoroVars
  \/ RunnerDies /\ UNCHANGED notCoroVars
  \/ JoinRaises /\ UNCHANGED notCoroVars
  \/ JoinReturns /\ UNCHANGED notCoroVars

SpecCoro == CoroInit /\ [][NextCoro]_allvars

\* ------------------------------------------- main of the coding autograder

\* A committee that always has the CodeRunner.
Committee_AlwaysRunner(run) ==
  { "StaticAnalyzer", "LogicAndEfficiency", "RubricAligner", "CodeRunner" }

\* The workers of grade_single_submission: the CodeRunner is added when
\* run_tests is true.
Committee(run) ==
  { "StaticAnalyzer", "LogicAndEfficiency", "RubricAligner" }
    \cup (IF run THEN { "CodeRunner" } ELSE {})

\* main is called: with or without test execution, with or without a tests
\* path, the rubric and the tests loadable or not, some submissions or none.
CodingInit ==
  /\ run_tests \in BOOLEAN
  /\ tests_path \in { "None", "tests/test_assignment1.py" }
  /\ rubric_loads \in BOOLEAN
  /\ tests_load \in BOOLEAN
  /\ tests_path = "None" => ~tests_load
  /\ submissions \in 0..MaxItems
  /\ main_pc = "rubric"
  /\ committees = <<>>
  /\ NoExtraction
  /\ NoCoro
  /\ NoChunking
  /\ NoRoundTrip

\* The rubric cannot be loaded: main returns.
RubricMissing ==
  /\ main_pc = "rubric"
  /\ ~rubric_loads
  /\ main_pc' = "exited"
  /\ UNCHANGED << run_tests, tests_path, rubric_loads, tests_load, submissions,
                  committees >>

RubricLoaded ==
  /\ main_pc = "rubric"
  /\ rubric_loads
  /\ main_pc' = "tests"
  /\ UNCHANGED << run_tests, tests_path, rubric_loads, tests_load, submissions,
                  committees >>

\* if run_tests is false the tests are not looked at.
TestsNotRequired ==
  /\ main_pc = "tests"
  /\ ~run_tests
  /\ main_pc' = "load"
  /\ UNCHANGED << run_tests, tests_path, rubric_loads, tests_load, submissions,
                  committees >>

\* run_tests and no tests path: main returns.
TestsPathMissing ==
  /\ main_pc = "tests"
  /\ run_tests
  /\ tests_path = "None"
  /\ main_pc' = "exited"
  /\ UNCHANGED << run_tests, tests_path, rubric_loads, tests_load, submissions,
                  committees >>

\* run_tests and the tests cannot be loaded: main returns.
TestsNotLoaded ==
  /\ main_pc = "tests"
  /\ run_tests
  /\ tests_path # "None"
  /\ ~tests_load
  /\ main_pc' = "exited"
  /\ UNCHANGED << run_tests, tests_path, rubric_loads, tests_load, submissions,
                  committees >>

TestsLoaded ==
  /\ main_pc = "tests"
  /\ run_tests
  /\ tests_path # "None"
  /\ tests_load
  /\ main_pc' = "load"
  /\ UNCHANGED << run_tests, tests_path, rubric_loads, tests_load, submissions,
                  committees >>

\* No submission is found: main returns.
NoSubmissions ==
  /\ main_pc = "load"
  /\ submissions = 0
  /\ main_pc' = "exited"
  /\ UNCHANGED << run_tests, tests_path, rubric_loads, tests_load, submissions,
                  committees >>

SubmissionsLoaded ==
  /\ main_pc = "load"
  /\ submissions > 0
  /\ main_pc' = "loop"
  /\ UNCHANGED << run_tests, tests_path, rubric_loads, tests_load, submissions,
                  committees >>

\* The next submission is taken: grade_single_submission forms the committee
\* for it and main waits, at the await of the committee's run, for its end.
GradeSubmission ==
  /\ main_pc = "loop"
  /\ Len(committees) < submissions
  /\ committees' = Append(committees, [formed |-> TRUE, workers |-> Committee(run_tests)])
  /\ main_pc' = "grading"
  /\ UNCHANGED << run_tests, tests_path, rubric_loads, tests_load, submissions >>

\* The run of the committee ends, with an evaluation or with an Exception
\* that grade_single_submission turns into an error result; the report is
\* written, or its writing raises an Exception that main logs: on to the next
\* submission.
GradingEnds ==
  /\ main_pc = "grading"
  /\ main_pc' = "loop"
  /\ UNCHANGED << run_tests, tests_path, rubric_loads, tests_load, submissions,
                  committees >>

\* The run of the committee raises what is no Exception (the CancelledError
\* of a cancelled task at the await, a KeyboardInterrupt): no handler is
\* entered, the exception leaves main.
GradeInterrupted ==
  /\ main_pc = "grading"
  /\ main_pc' = "raised"
  /\ UNCHANGED << run_tests, tests_path, rubric_loads, tests_load, submissions,
                  committees >>

\* The grading of the next submission raises an Exception before a committee
\* is formed (the adapter of the model cannot be constructed): main logs the
\* error and goes on to the next submission.
GradeFailsEarly ==
  /\ main_pc = "loop"
  /\ Len(committees) < submissions
  /\ committees' = Append(committees, [formed |-> FALSE, workers |-> {}])
  /\ UNCHANGED << run_tests, tests_path, rubric_loads, tests_load, submissions,
                  main_pc >>

\* The grading of the next submission raises what is no Exception before a
\* committee is formed (a KeyboardInterrupt or a SystemExit while the adapter
\* or an agent is constructed): no committee is formed, the exception leaves
\* main.
GradeInterruptedEarly ==
  /\ main_pc = "loop"
  /\ Len(committees) < submissions
  /\ committees' = Append(committees, [formed |-> FALSE, workers |-> {}])
  /\ main_pc' = "raised"
  /\ UNCHANGED << run_tests, tests_path, rubric_loads, tests_load, submissions >>

\* The loop is over: the batch is complete.
GradingComplete ==
  /\ main_pc = "loop"
  /\ Len(committees) = submissions
  /\ main_pc' = "done"
  /\ UNCHANGED << run_tests, tests_path, rubric_loads, tests_load, submissions,
                  committees >>

notCodingVars ==
  << vars, timeoutVars, sessionVars, scriptVars, batchVars, coroVars, chunkVars,
     roundTripVars >>

NextCoding ==
  \/ RubricMissing /\ UNCHANGED notCodingVars
  \/ RubricLoaded /\ UNCHANGED notCodingVars
  \/ TestsNotRequired /\ UNCHANGED notCodingVars
  \/ TestsPathMissing /\ UNCHANGED notCodingVars
  \/ TestsNotLoaded /\ UNCHANGED notCodingVars
  \/ TestsLoaded /\ UNCHANGED notCodingVars
  \/ NoSubmissions /\ UNCHANGED notCodingVars
  \/ SubmissionsLoaded /\ UNCHANGED notCodingVars
  \/ GradeSubmission /\ UNCHANGED notCodingVars
  \/ GradingEnds /\ UNCHANGED notCodingVars
  \/ GradeInterrupted /\ UNCHANGED notCodingVars
  \/ GradeFailsEarly /\ UNCHANGED notCodingVars
  \/ GradeInterruptedEarly /\ UNCHANGED notCodingVars
  \/ GradingComplete /\ UNCHANGED notCodingVars

SpecCoding == CodingInit /\ [][NextCoding]_allvars

\* ------------------------------------------------------ the chunking loops

Chunkers == { "split_text", "_chunk_text" }

\* The texts given: every sequence of at most MaxTextLen units over two
\* letters; a unit is a character for split_text, a word for _chunk_text.
UnitSeqs == UNION { [1..n -> {"a", "b"}] : n \in 0..MaxTextLen }

Min(x, y) == IF x <= y THEN x ELSE y
Max(x, y) == IF x >= y THEN x ELSE y

\* The bound of a Python slice brought into 0..Len: a negative bound counts
\* from the end, and every bound is clipped.
SliceBound(seq, b) ==
  IF b < 0 THEN Max(b + Len(seq), 0) ELSE Min(b, Len(seq))

\* The Python slice seq[lo:hi].
Slice(seq, lo, hi) ==
  SubSeq(seq, SliceBound(seq, lo) + 1, SliceBound(seq, hi))

\* A function is called with a text, a chunk size and a chunk overlap, which
\* nothing checks.
ChunkInit ==
  /\ chunker \in Chunkers
  /\ units \in UnitSeqs
  /\ chunk_size \in 0..MaxChunkSize
  /\ chunk_overlap \in 0..MaxChunkSize
  /\ start = 0
  /\ chunks = <<>>
  /\ iterations = 0
  /\ chunk_pc = "entry"
  /\ NoExtraction
  /\ NoCoro
  /\ NoCoding
  /\ NoRoundTrip

\* The statements before the loop: split_text returns [] for an empty text;
\* otherwise the list of chunks is empty and the loop variable is 0.
ChunkEntry ==
  /\ chunk_pc = "entry"
  /\ chunk_pc' = IF chunker = "split_text" /\ units = <<>> THEN "returned" ELSE "while"
  /\ start' = 0
  /\ chunks' = <<>>
  /\ UNCHANGED << chunker, units, chunk_size, chunk_overlap, iterations >>

\* An iteration that moves on by the chunk size, the overlap forgotten.
ChunkIteration_NoOverlap ==
  /\ chunk_pc = "while"
  /\ start < Len(units)
  /\ iterations < MaxIterations
  /\ LET piece == Slice(units, start, start + chunk_size)
     IN  chunks' = IF chunker = "split_text" \/ piece # <<>>
                   THEN Append(chunks, piece) ELSE chunks
  /\ start' = start + chunk_size
  /\ iterations' = iterations + 1
  /\ UNCHANGED << chunker, units, chunk_size, chunk_overlap, chunk_pc >>

\* An iteration of the loop: the slice of chunk_size units from the loop
\* variable is a chunk (_chunk_text drops an empty one), and the loop variable
\* moves on by chunk_size - chunk_overlap.
ChunkIteration ==
  /\ chunk_pc = "while"
  /\ start < Len(units)
  /\ iterations < MaxIterations
  /\ LET piece == Slice(units, start, start + chunk_size)
     IN  chunks' = IF chunker = "split_text" \/ piece # <<>>
                   THEN Append(chunks, piece) ELSE chunks
  /\ start' = start + chunk_size - chunk_overlap
  /\ iterations' = iterations + 1
  /\ UNCHANGED << chunker, units, chunk_size, chunk_overlap, chunk_pc >>

\* The loop variable has reached the end of the text: the chunks are returned.
ChunkReturn ==
  /\ chunk_pc = "while"
  /\ start >= Len(units)
  /\ chunk_pc' = "returned"
  /\ UNCHANGED << chunker, units, chunk_size, chunk_overlap, start, chunks,
                  iterations >>

notChunkVars ==
  << vars, timeoutVars, sessionVars, scriptVars, batchVars, coroVars, codingVars,
     roundTripVars >>

NextChunk ==
  \/ ChunkEntry /\ UNCHANGED notChunkVars
  \/ ChunkIteration /\ UNCHANGED notChunkVars
  \/ ChunkReturn /\ UNCHANGED notChunkVars

SpecChunk == ChunkInit /\ [][NextChunk]_allvars

\* ------------------------------------- validating, writing, validating again

\* A response for UserProfile and one for Person, their members as given (the
\* tokens of each value).
ProfileOf(name, age, interests, is_student) ==
  Obj(<< <<"name", name>>, <<"age", age>>,
         <<"city", << S("San Francisco") >> >>,
         <<"interests", interests>>, <<"is_student", is_student>> >>)

PersonOf(name, age, interests) ==
  Obj(<< <<"name", name>>, <<"age", age>>, <<"interests", interests>> >>)

\* The values a response gives for a str field: plain, with the escapes of
\* JSON (a character above U+FFFF is a pair of surrogates), with characters
\* above U+007F as they are, empty; then a surrogate with no pair, an escape
\* JSON does not have, a number and null, which do not validate.
NameValues ==
  { << S("Jane Doe") >>,
    << S("Ren\\u00e9e \\\"R\\\" O'Neil") >>,
    << S("Zo\\u00EB \\/ \\\\ Zo" \o CharOf(235)) >>,
    << S("tab\\there\\nline\\r\\b\\f") >>,
    << S("\\ud83d\\ude00 \\u20ac \\u0060 \\u0000") >>,
    << S(" padded ") >>,
    << S("") >>,
    << S("\\ud83d") >>,
    << S("bad \\x escape") >>,
    << N("5") >>,
    << Z >> }

\* The values a response gives for an int field.  Numbers: whole, negative,
\* minus zero, with a decimal part of zeros, with an exponent, so small or so
\* near a whole number that the float is one, beyond 64 bits, of MaxIntDigits
\* characters and of one more, with and without a minus sign, with a fraction,
\* too large for an int as a float, and NaN.  Strings: digits, padded with
\* white space of several kinds, with leading zeros, a sign, underscores, a
\* decimal part of zeros, a zero before a minus sign, written with escapes,
\* words, of MaxIntDigits characters and of one more, with and without a minus
\* sign, and too long after a space.  Then true, false and null.
AgeValues ==
  { << N("28") >>, << N("0") >>, << N("-0") >>, << N("-7") >>,
    << N("28.0") >>, << N("2.8e1") >>, << N("-0.0") >>, << N("1e-400") >>,
    << N("0.99999999999999999") >>,
    << N("9223372036854775807") >>, << N("9223372036854775808") >>,
    << N("-123456789012345678901234567890") >>,
    << N("1" \o Zeros(MaxIntDigits - 1)) >>, << N("1" \o Zeros(MaxIntDigits)) >>,
    << N("-1" \o Zeros(MaxIntDigits - 2)) >>, << N("-1" \o Zeros(MaxIntDigits - 1)) >>,
    << N("28.5") >>, << N("1e19") >>, << N("NaN") >>,
    << S("28") >>, << S(" 28 ") >>, << S("\\t28\\n") >>, << S("\\u00a028\\u2003") >>,
    << S("007") >>, << S("-007") >>, << S("+5") >>, << S("1_000") >>,
    << S("28.0") >>, << S("0-1") >>, << S("0-01") >>, << S("-0") >>,
    << S("\\u0032\\u0038") >>, << S("twenty-eight") >>, << S("28.5") >>,
    << S("9223372036854775808") >>,
    << S("1" \o Zeros(MaxIntDigits - 1)) >>, << S("1" \o Zeros(MaxIntDigits)) >>,
    << S("-1" \o Zeros(MaxIntDigits - 2)) >>, << S("-1" \o Zeros(MaxIntDigits - 1)) >>,
    << S(" 1" \o Zeros(MaxIntDigits)) >>,
    << B("true") >>, << B("false") >>, << Z >> }

\* The values a response gives for a bool field: true and false, the strings
\* and the numbers that are read as one, and some that are not.
StudentValues ==
  { << B("true") >>, << B("false") >>,
    << S("yes") >>, << S("No") >>, << S("OFF") >>, << S("1") >>, << S("0") >>,
    << S("TRUE") >>, << S("\\u0079es") >>, << S("maybe") >>, << S(" yes") >>,
    << N("1") >>, << N("0") >>, << N("1.0") >>, << N("0.0") >>, << N("2") >>,
    << N("0.5") >>, << N("1000000000000000000") >>, << Z >> }

\* The values a response gives for a list of str.
InterestValues ==
  { StrArray(<< "painting", "running" >>),
    StrArray(<< >>),
    StrArray(<< "caf\\u00e9s", "\\\"quoted\\\"", "", "a\\\\b" >>),
    << P("["), S("painting"), P(","), N("7"), P("]") >>,
    << P("["), P("["), S("painting"), P("]"), P("]") >>,
    << S("painting") >>,
    << Z >> }

\* Responses with a member written twice (the last one counts), with a key
\* written with an escape, with the members in another order and one the
\* schema does not declare, and with a member missing.
TwiceJson ==
  Obj(<< <<"age", << S("old") >> >>, <<"name", << S("Jane Doe") >> >>,
         <<"city", << S("San Francisco") >> >>, <<"age", << S("0028") >> >>,
         <<"interests", StrArray(<< "painting" >>)>>,
         <<"is_student", << N("0.0") >> >>, <<"is_student", << S("on") >> >> >>)

EscapedKeyJson ==
  Obj(<< <<"n\\u0061me", << S("Jane Doe") >> >>, <<"\\u0061ge", << N("28") >> >>,
         <<"city", << S("San Francisco") >> >>,
         <<"interests", StrArray(<< "painting" >>)>>,
         <<"is_student", << B("false") >> >> >>)

MissingJson ==
  Obj(<< <<"name", << S("Jane Doe") >> >>, <<"age", << N("28") >> >> >>)

\* The response with a value of each kind that validation changes: a name
\* written with escapes, an age written as a padded string, a bool written
\* as a word.
CoercedJson ==
  ProfileOf(<< S("Ren\\u00e9e \\\"R\\\" O'Neil") >>, << S(" 28 ") >>,
            StrArray(<< "caf\\u00e9s", "\\\"quoted\\\"", "", "a\\\\b" >>),
            << S("yes") >>)

\* The texts given to model_validate_json for a schema: one field varied at a
\* time, some fields varied together, and the responses above.
Candidates(m) ==
  IF m = UserProfile
  THEN {ProfileOf(n, << N("28") >>, StrArray(<< "painting", "running" >>),
                  << B("true") >>) : n \in NameValues}
         \cup {ProfileOf(<< S("Jane Doe") >>, a, StrArray(<< "painting", "running" >>),
                         << B("true") >>) : a \in AgeValues}
         \cup {ProfileOf(<< S("Jane Doe") >>, << N("28") >>, i, << B("true") >>) :
                 i \in InterestValues}
         \cup {ProfileOf(<< S("Jane Doe") >>, << N("28") >>,
                         StrArray(<< "painting", "running" >>), b) :
                 b \in StudentValues}
         \cup {ProfileOf(<< S("Zo\\u00EB \\/ \\\\ Zo" \o CharOf(235)) >>, a, StrArray(<< >>), b) :
                 a \in {<< N("-0") >>, << N("2.8e1") >>, << S("-007") >>,
                        << S("1_000") >>, << N("9223372036854775808") >>},
                 b \in {<< S("No") >>, << N("1.0") >>, << B("false") >>}}
         \cup {CoercedJson, TwiceJson, EscapedKeyJson, MissingJson, ExtraJson,
               ProseText, << >>}
  ELSE {PersonOf(n, a, i) :
          n \in {<< S("Jane") >>, << S("\\ud83d\\ude00 \\u20ac \\u0060 \\u0000") >>},
          a \in {<< N("28") >>, << S(" 28 ") >>, << N("28.0") >>, << S("0-1") >>,
                 << N("28.5") >>},
          i \in {StrArray(<< "painting", "running" >>), StrArray(<< >>),
                 << S("painting") >>}}

RoundTripInit ==
  /\ rt_model \in Schemas
  /\ candidate \in Candidates(rt_model)
  /\ validated_output = None
  /\ dumped = <<>>
  /\ revalidated = [ok |-> FALSE, value |-> None, errors |-> <<>>]
  /\ rt_pc = "validate"
  /\ NoExtraction
  /\ NoCoro
  /\ NoCoding
  /\ NoChunking

\* output_model.model_validate_json(response_text) returns the instance.
RoundTripValidate ==
  /\ rt_pc = "validate"
  /\ ModelValidateJson(rt_model, candidate).ok
  /\ validated_output' = ModelValidateJson(rt_model, candidate).value
  /\ rt_pc' = "dump"
  /\ UNCHANGED << rt_model, candidate, dumped, revalidated >>

\* model_validate_json raises: there is no instance to write.
RoundTripRefuse ==
  /\ rt_pc = "validate"
  /\ ~ModelValidateJson(rt_model, candidate).ok
  /\ rt_pc' = "refused"
  /\ UNCHANGED << rt_model, candidate, validated_output, dumped, revalidated >>

\* extracted_data.model_dump_json(indent=2) writes the instance.
RoundTripDump ==
  /\ rt_pc = "dump"
  /\ dumped' = ModelDumpJson(validated_output)
  /\ rt_pc' = "revalidate"
  /\ UNCHANGED << rt_model, candidate, validated_output, revalidated >>

\* What was written is given to model_validate_json of the same schema.
RoundTripRevalidate ==
  /\ rt_pc = "revalidate"
  /\ revalidated' = ModelValidateJson(rt_model, dumped)
  /\ rt_pc' = "done"
  /\ UNCHANGED << rt_model, candidate, validated_output, dumped >>

notRoundTripVars ==
  << vars, timeoutVars, sessionVars, scriptVars, batchVars, coroVars, codingVars,
     chunkVars >>

NextRoundTrip ==
  \/ RoundTripValidate /\ UNCHANGED notRoundTripVars
  \/ RoundTripRefuse /\ UNCHANGED notRoundTripVars
  \/ RoundTripDump /\ UNCHANGED notRoundTripVars
  \/ RoundTripRevalidate /\ UNCHANGED notRoundTripVars

SpecRoundTrip == RoundTripInit /\ [][NextRoundTrip]_allvars

\* ------------------------------------------------------------- the claims

\* Whether a response validates against the schema of the session, the
\* instance it validates to, and the error text of its validation.
Valid(r) == ModelValidateJson(output_model, r).ok
ValueOf(r) == ModelValidateJson(output_model, r).value
ErrorOf(r) == ErrorText(output_model, ModelValidateJson(output_model, r).errors)

\* The base prompt of the session.
BasePrompt == EXTRACTION_PROMPT_TEMPLATE(ModelJsonSchema(output_model), text)

\* The value of a field of an instance (PyNone when it has no such field).
FieldVal(res, name) ==
  LET idx == {i \in 1..Len(res.fields) : res.fields[i].name = name}
  IN  IF idx = {} THEN PyNone ELSE res.fields[CHOOSE i \in idx : TRUE].val

\* The number of model invocations of the session.
Invocations == Len(sent)

\* C1: when the first response of the model validates against the schema,
\* extract returns the validated value after attempt 1, and the model was
\* invoked exactly once (one prompt, one response), whatever the schema, the
\* text and the budget.
C1_FirstValidOneCall ==
  (Len(raws) >= 1 /\ Valid(raws[1])) =>
    /\ max_retries >= 1
    /\ Invocations = 1 /\ Len(raws) = 1 /\ attempt = 0
    /\ pc \in {"validate", "returned"}
    /\ pc = "returned" => (result.t # "None" /\ result = ValueOf(raws[1]))

C1_Witness ==
  /\ pc = "returned" /\ result.t # "None"
  /\ Len(raws) = 1 /\ max_retries >= 2

\* C2: when N-1 responses failed validation and the N-th validates, extract
\* succeeds on attempt N with exactly N invocations and returns the validated
\* N-th response; and every prompt sent after a failed attempt contains that
\* attempt's raw output and its validation error text.
C2_SucceedsOnAttemptN ==
  /\ LET n == Len(raws)
     IN  (n >= 1 /\ Valid(raws[n]) /\ \A k \in 1..(n - 1) : ~Valid(raws[k])) =>
           /\ n <= max_retries
           /\ Invocations = n /\ attempt = n - 1
           /\ pc \in {"validate", "returned"}
           /\ pc = "returned" => (result.t # "None" /\ result = ValueOf(raws[n]))
  /\ \A k \in 2..Len(sent) :
       /\ ~Valid(raws[k - 1])
       /\ Contains(sent[k], raws[k - 1])
       /\ Contains(sent[k], ErrorOf(raws[k - 1]))

C2_Witness ==
  /\ pc = "returned" /\ result.t # "None"
  /\ Len(raws) = 3 /\ Len(sent) = 3 /\ raws[1] # raws[2] /\ raws[2] # <<>>

\* The error, the attempt count and the ok flag a returned value carries: None
\* carries none.
CarriedError(res) == IF "error" \in DOMAIN res THEN res.error ELSE <<>>
CarriedAttempts(res) == IF "attempts" \in DOMAIN res THEN res.attempts ELSE -1
CarriedOk(res) == IF "ok" \in DOMAIN res THEN res.ok ELSE TRUE

\* A session that returned with its budget (at least 1) used up by failures.
Exhausted ==
  /\ pc = "returned" /\ max_retries >= 1
  /\ Len(raws) = max_retries
  /\ \A k \in 1..Len(raws) : ~Valid(raws[k])

\* C3 as claimed: when none of the max_retries responses validates, extract
\* does not raise and returns a failure result with ok false and an attempts
\* count equal to max_retries.
C3_ReturnsCountedFailure ==
  (/\ max_retries >= 1
   /\ Len(raws) = max_retries
   /\ \A k \in 1..Len(raws) : ~Valid(raws[k])) =>
    /\ pc \in {"validate", "for", "returned"}
    /\ pc = "returned" => (/\ CarriedOk(result) = FALSE
                           /\ CarriedAttempts(result) = max_retries)

\* C3 as amended: when the budget is at least 1 and none of the max_retries
\* responses validates, extract does not raise: it returns None, which has
\* no ok flag and no attempts count, after exactly max_retries attempts, each
\* with one invocation of the model and one validation error.
C3_ExhaustionReturnsFailure ==
  (/\ max_retries >= 1
   /\ Len(raws) = max_retries
   /\ \A k \in 1..Len(raws) : ~Valid(raws[k])) =>
    /\ pc \in {"validate", "for", "returned"}
    /\ pc = "returned" => (/\ result = None
                           /\ "ok" \notin DOMAIN result
                           /\ "attempts" \notin DOMAIN result
                           /\ Invocations = max_retries
                           /\ attempt = max_retries
                           /\ Len(errs) = max_retries)

C3_Witness ==
  /\ pc = "returned" /\ result = None
  /\ max_retries = 2 /\ Len(raws) = 2
  /\ raws[1] = ProseText /\ raws[2] = ProseText

\* C4: while an attempt is under way its index (attempt + 1) lies in
\* 1..max_retries, each attempt has made exactly one model invocation, and the
\* invocations of a session never exceed max_retries.
C4_AttemptWithinBudget ==
  /\ pc \in {"chat", "validate"} => (attempt + 1) \in 1..max_retries
  /\ pc \in {"for", "chat"} => Invocations = attempt
  /\ pc = "validate" => Invocations = attempt + 1
  /\ Len(raws) <= Invocations
  /\ max_retries >= 0 => Invocations <= max_retries
  /\ max_retries < 0 => Invocations = 0

C4_Witness ==
  /\ pc = "validate" /\ attempt + 1 = max_retries /\ max_retries >= 3

\* C5: success is terminal.  Once a response validates, the only step of the
\* session is the return of that response validated: no further model
\* invocation is made, even when budget remains.
C5_SucceededIsTerminal ==
  [][(\E k \in 1..Len(raws) : Valid(raws[k])) =>
       /\ sent' = sent /\ raws' = raws
       /\ pc' = "returned"
       /\ result' = ValueOf(raws[Len(raws)])]_vars

C5_Witness ==
  /\ pc = "returned" /\ result.t # "None"
  /\ Invocations = 2 /\ Invocations < max_retries

\* The suffixes the failed attempts 1..k add to the prompt, in order.
RECURSIVE SuffixesUpTo(_)
SuffixesUpTo(k) ==
  IF k = 0 THEN <<>>
  ELSE SuffixesUpTo(k - 1) \o RetrySuffix(raws[k], ErrorOf(raws[k]))

\* C6 as claimed: the prompt of every attempt k > 1 is the base prompt followed
\* by exactly one suffix, the one of attempt k-1.
C6_OneSuffixOnly ==
  \A k \in 2..Len(sent) :
    sent[k] = BasePrompt \o RetrySuffix(raws[k - 1], ErrorOf(raws[k - 1]))

\* C6 as amended: the prompt of attempt 1 is the base prompt, and the prompt
\* of every attempt k > 1 is the base prompt, unaltered, followed by the
\* suffixes of all the attempts 1..k-1 in order, the last one being the one
\* built from the raw output and the error text of attempt k-1.
C6_AllSuffixesInOrder ==
  \A k \in 1..Len(sent) :
    /\ sent[k] = BasePrompt \o SuffixesUpTo(k - 1)
    /\ StartsWith(sent[k], BasePrompt)

C6_Witness ==
  /\ Len(sent) = 3 /\ Len(raws) = 3
  /\ raws[1] # raws[2]

\* C7: when an invocation of the model raises, the exception leaves extract at
\* once: an invocation without a response means the session has ended as
\* raised (which is not returned, the end of an exhausted session), the
\* handler of validation errors has recorded and appended nothing for it, and
\* no invocation follows it.
C7_InvocationFailurePropagates ==
  /\ (Invocations # Len(raws)) =>
       /\ pc = "raised"
       /\ Invocations = Len(raws) + 1
       /\ Len(errs) = Len(raws)
       /\ prompt = sent[Invocations]
       /\ result = None
  /\ pc = "raised" => (Invocations = Len(raws) + 1 /\ Invocations = attempt + 1)

C7_Witness ==
  /\ pc = "raised" /\ attempt = 1 /\ max_retries >= 3

\* C8 as claimed: on exhaustion the returned value carries the validation
\* error of the last attempt and the number of attempts made.
C8_ResultCarriesLastError ==
  Exhausted =>
    /\ CarriedError(result) = ErrorOf(raws[max_retries])
    /\ CarriedAttempts(result) = max_retries

\* Whether s ends with suf.
EndsWith(s, suf) ==
  /\ Len(suf) <= Len(s)
  /\ \A j \in 1..Len(suf) : s[Len(s) - Len(suf) + j] = suf[j]

\* C8 as amended: on exhaustion extract returns None, which carries neither
\* an error nor an attempt count; the validation error of the last attempt
\* (attempt max_retries, not an earlier one) is the last thing appended to the
\* local prompt, and the number of attempts made is max_retries.
C8_NoneAfterLastError ==
  Exhausted =>
    /\ result = None
    /\ CarriedError(result) = <<>> /\ CarriedAttempts(result) = -1
    /\ Invocations = max_retries /\ attempt = max_retries
    /\ Len(errs) = max_retries
    /\ errs[max_retries] = ErrorOf(raws[max_retries])
    /\ EndsWith(prompt, RetrySuffix(raws[max_retries], ErrorOf(raws[max_retries])))

C8_Witness ==
  /\ Exhausted /\ max_retries = 3
  /\ ErrorOf(raws[3]) # ErrorOf(raws[2]) /\ ErrorOf(raws[3]) # ErrorOf(raws[1])

\* C9: extract returns an instance of the given output model when some
\* response within the budget validated (the last one received), and None
\* otherwise; it returns None only after max_retries responses each failed
\* validation.
C9_InstanceOrNone ==
  pc = "returned" =>
    /\ (result.t # "None") <=> (\E k \in 1..Len(raws) : Valid(raws[k]))
    /\ Len(raws) <= max_retries \/ Len(raws) = 0
    /\ result.t # "None" =>
         /\ result.t = output_model.title
         /\ Len(result.fields) = Len(output_model.fields)
         /\ \A i \in 1..Len(result.fields) :
              /\ result.fields[i].name = output_model.fields[i].name
              /\ result.fields[i].val.t # "None"
         /\ result = ValueOf(raws[Len(raws)])
    /\ result.t = "None" =>
         /\ result = None
         /\ Len(raws) = (IF max_retries >= 0 THEN max_retries ELSE 0)
         /\ Invocations = Len(raws)
         /\ \A k \in 1..Len(raws) : ~Valid(raws[k])

C9_Witness ==
  /\ pc = "returned" /\ result.t = "UserProfile"
  /\ Len(raws) = 2 /\ max_retries = 3

\* The schemas of the model all have a required integer field age.
HasIntAge(m) == \E i \in 1..Len(m.fields) : m.fields[i].name = "age" /\ m.fields[i].type = "int"

\* A response the session's schema is otherwise satisfied with, its age as given.
AgeResponse(age) ==
  IF output_model = Person THEN PersonJson(age) ELSE ProfileJson(age, B("true"))

\* C10 as claimed: a first response whose age is the JSON string "28" is a
\* type violation that causes a retry, and when the second response has the
\* integer 28, extract returns success with age = 28 after two invocations.
C10_StringAgeIsRetried ==
  (/\ HasIntAge(output_model) /\ max_retries >= 2
   /\ Len(raws) >= 1 /\ raws[1] = AgeResponse(S("28"))) =>
    /\ ~Valid(raws[1])
    /\ pc = "returned" => Invocations >= 2
    /\ (pc = "returned" /\ Len(raws) = 2 /\ raws[2] = AgeResponse(N("28"))) =>
         /\ FieldVal(result, "age") = PyInt("28")
         /\ Invocations = 2

\* C10 as amended: a first response whose age is the JSON string "28" is no
\* type violation: validation reads it as the integer 28, and extract returns
\* success with age = 28 after attempt 1, one invocation.  A first response
\* whose age is a string that does not read as an integer ("twenty-eight") is
\* a type violation that causes a retry, and when the second response has the
\* integer 28, extract returns success with age = 28 after two invocations.
C10_NumericStringCoerced ==
  /\ (/\ HasIntAge(output_model) /\ max_retries >= 1
      /\ Len(raws) >= 1 /\ raws[1] = AgeResponse(S("28"))) =>
       /\ Valid(raws[1])
       /\ Invocations = 1 /\ pc \in {"validate", "returned"}
       /\ pc = "returned" => FieldVal(result, "age") = PyInt("28")
  /\ (/\ HasIntAge(output_model) /\ max_retries >= 2
      /\ Len(raws) >= 1 /\ raws[1] = ProfileJson(S("twenty-eight"), B("true"))) =>
       /\ ~Valid(raws[1])
       /\ Contains(ErrorOf(raws[1]), << W("age"), W("int_parsing") >>)
       /\ pc = "returned" => Invocations >= 2
       /\ (pc = "returned" /\ Len(raws) = 2 /\ raws[2] = AgeResponse(N("28"))) =>
            /\ FieldVal(result, "age") = PyInt("28")
            /\ Invocations = 2

C10_Witness ==
  /\ pc = "returned" /\ output_model = Person
  /\ Len(raws) = 1 /\ raws[1] = PersonJson(S("28"))
  /\ FieldVal(result, "age") = PyInt("28")

\* The error types of the validation of a response.
ErrorTypes(r) ==
  LET errors == ModelValidateJson(output_model, r).errors
  IN  {errors[i].type : i \in 1..Len(errors)}

\* A response that is not JSON, and one that is JSON and violates the schema.
IsParseError(r) == ~ParseJson(r).ok /\ ErrorTypes(r) = {"json_invalid"}
IsSchemaViolation(r) == ParseJson(r).ok /\ ~Valid(r) /\ "json_invalid" \notin ErrorTypes(r)

\* C11: a response that parses and violates the schema (a required field
\* missing) and a response that is not JSON drive the session alike: every
\* failed validation, whatever its kind, leads to the head of the loop with
\* the attempt counted and the output and its error text appended, and from
\* there to the next attempt when budget remains and to the return of the
\* failure value otherwise; only the error text differs.
C11_ViolationsRetryAlike ==
  /\ [](\A k \in 1..Len(raws) :
          /\ ~Valid(raws[k]) <=> (IsParseError(raws[k]) \/ IsSchemaViolation(raws[k]))
          /\ (output_model = UserProfile /\ raws[k] = PersonJson(N("28"))) =>
               (IsSchemaViolation(raws[k]) /\ ErrorTypes(raws[k]) = {"missing"})
          /\ raws[k] = ProseText => IsParseError(raws[k]))
  /\ [][/\ (pc = "validate" /\ ~Valid(response_text)) =>
            /\ pc' = "for" /\ attempt' = attempt + 1
            /\ prompt' = prompt \o RetrySuffix(response_text, ErrorOf(response_text))
            /\ UNCHANGED << sent, raws, result >>
        /\ (pc = "for" /\ attempt < max_retries) => pc' = "chat"
        /\ (pc = "for" /\ attempt >= max_retries) =>
             (pc' = "returned" /\ result' = None)]_vars

C11_Witness ==
  /\ pc = "for" /\ Len(raws) = 2 /\ attempt = 2
  /\ IsParseError(raws[1])
  /\ IsSchemaViolation(raws[2]) /\ "missing" \in ErrorTypes(raws[2])

\* A response with no token other than whitespace.
Blank(r) == StripWs(r) = <<>>

\* C12: an empty or whitespace-only response is never accepted: at every
\* attempt it fails validation as a parse error (not JSON), it uses up its
\* attempt, and what extract returns as a success is never validated from it.
C12_BlankIsParseError ==
  /\ \A k \in 1..Len(raws) :
       Blank(raws[k]) =>
         /\ ~Valid(raws[k])
         /\ IsParseError(raws[k])
         /\ (k < Len(raws) \/ pc # "validate") =>
              /\ attempt >= k
              /\ Len(errs) >= k /\ errs[k] = ErrorOf(raws[k])
              /\ IsParseError(raws[k])
  /\ (pc = "returned" /\ result.t # "None") => ~Blank(raws[Len(raws)])

C12_Witness ==
  /\ pc = "returned" /\ result = None /\ max_retries = 2
  /\ raws[1] = <<>> /\ raws[2] = << WS >>

\* The type of the Python value a declared type validates to.
PyType(type) ==
  CASE type = "str" -> "str" [] type = "int" -> "int"
    [] type = "bool" -> "bool" [] type = "list_str" -> "list"

\* The keys of the members of a response that parses as an object.
MemberKeys(r) ==
  LET ms == ParseJson(r).members IN {ms[i].key : i \in 1..Len(ms)}

\* C13: a success returned by extract conforms exactly to the schema: every
\* declared field is present, every value has its declared type, and there is
\* no field the schema does not declare, also when the accepted response had
\* members the schema does not declare.
C13_ResultConformsExactly ==
  (pc = "returned" /\ result.t # "None") =>
    /\ Len(result.fields) = Len(output_model.fields)
    /\ \A i \in 1..Len(result.fields) :
         /\ i <= Len(output_model.fields)
         /\ result.fields[i].name = output_model.fields[i].name
         /\ result.fields[i].val.t = PyType(output_model.fields[i].type)

C13_Witness ==
  /\ pc = "returned" /\ result.t # "None"
  /\ raws[Len(raws)] = ExtraJson
  /\ Codes("email") \in MemberKeys(raws[Len(raws)])
  /\ \A i \in 1..Len(result.fields) : result.fields[i].name # "email"

\* C17: round trip.  For every text that validates against a schema, the
\* instance written with model_dump_json and validated again against the same
\* schema validates, to an instance equal to the first.
C17_RoundTrip ==
  rt_pc = "done" =>
    /\ revalidated.ok
    /\ revalidated.value = validated_output

\* The response whose name is written with escapes, whose age is a padded
\* string and whose bool is a word has made the round trip: what was written
\* differs from the response, and reads back to the same instance.
C17_Witness ==
  /\ rt_pc = "done" /\ rt_model = UserProfile /\ candidate = CoercedJson
  /\ FieldVal(validated_output, "age") = PyInt("28")
  /\ FieldVal(validated_output, "is_student") = PyBool(TRUE)
  /\ 233 \in Range(FieldVal(validated_output, "name").s)
  /\ 34 \in Range(FieldVal(validated_output, "name").s)
  /\ dumped # candidate
  /\ revalidated.ok /\ revalidated.value = validated_output

\* C15: a deadline of the caller that passes while an invocation of the model
\* is in flight aborts the attempt: from then on extract is either still at
\* that invocation or has ended with the failure of the invocation; it does
\* not go on to validate a response, to retry or to return.
C15_TimeoutAbortsAttempt ==
  timeout_fired => pc \in {"chat", "raised"}

\* The retry suffixes of the first k responses rs under the schema m, in order.
RECURSIVE SoloSuffixes(_, _, _)
SoloSuffixes(m, rs, k) ==
  IF k = 0 THEN <<>>
  ELSE SoloSuffixes(m, rs, k - 1)
       \o RetrySuffix(rs[k], ErrorText(m, ModelValidateJson(m, rs[k]).errors))

\* The prompt a call of extract(t, m) running alone sends at its k-th
\* invocation, the responses before it being rs.
SoloPrompt(t, m, rs, k) ==
  EXTRACTION_PROMPT_TEMPLATE(ModelJsonSchema(m), t) \o SoloSuffixes(m, rs, k - 1)

\* A call is where a call running alone with the same agent, inputs and
\* responses would be: its prompts, its attempt count and its result.
AsAlone(s) ==
  LET budget == agents[s.agent]
      n == Len(s.raws)
      ok(k) == ModelValidateJson(s.output_model, s.raws[k]).ok
  IN  /\ \A k \in 1..Len(s.sent) :
           s.sent[k] = SoloPrompt(s.text, s.output_model, s.raws, k)
      /\ \A k \in 1..(n - 1) : ~ok(k)
      /\ s.pc \in {"for", "chat"} =>
           /\ s.attempt = n /\ Len(s.sent) = n /\ \A k \in 1..n : ~ok(k)
           /\ s.prompt = SoloPrompt(s.text, s.output_model, s.raws, n + 1)
           /\ s.pc = "chat" => s.attempt < budget
      /\ s.pc = "validate" => s.attempt = n - 1 /\ Len(s.sent) = n
      /\ s.pc = "raised" => s.attempt = n /\ Len(s.sent) = n + 1
      /\ s.pc = "returned" =>
           IF n > 0 /\ ok(n)
           THEN /\ s.attempt = n - 1 /\ n <= budget
                /\ s.result = ModelValidateJson(s.output_model, s.raws[n]).value
           ELSE /\ s.attempt = n /\ n = budget
                /\ s.result = None

\* C14: calls of extract share no mutable state.  Under every interleaving of
\* two calls, on one agent or on two, each call sends the prompts, counts the
\* attempts and returns the result of a call running alone with the same
\* inputs and the same responses.
C14_SessionsAreIndependent ==
  \A i \in SessionIds : ses[i].pc # "idle" => AsAlone(ses[i])

C14_Witness ==
  /\ ses[1].agent = 1 /\ ses[2].agent = 1
  /\ ses[1].output_model = UserProfile /\ ses[2].output_model = Person
  /\ ses[1].pc = "returned" /\ ses[1].result = None /\ Len(ses[1].sent) = 2
  /\ ses[2].pc = "returned" /\ ses[2].result.t = "Person" /\ Len(ses[2].sent) = 2
  /\ ses[1].raws[1] # ses[2].raws[1]

\* C19: the script tool runs approved scripts only.  Every invocation whose
\* script name is not a key of script_map gives an error result and runs no
\* command, and every command that is run has a path of script_map as its
\* program.
C19_OnlyApprovedScriptsRun ==
  /\ \A k \in 1..Len(running) :
       /\ running[k].script_name \in DOMAIN script_map
       /\ running[k].command[1] \in Range(script_map)
  /\ \A k \in 1..Len(calls) :
       /\ calls[k].script_name \notin DOMAIN script_map =>
            (calls[k].status = "error" /\ ~calls[k].ran)
       /\ calls[k].ran => calls[k].command[1] \in Range(script_map)

\* C20: the batch is isolated from the failure of an item.  main attempts each
\* item once, in list order; a failure while grading or reporting an item
\* never ends the batch before the later items (no exception leaves the
\* loop), and a batch that has ended has attempted every item.
C20_BatchIsolation ==
  /\ attempted = [k \in 1..Len(attempted) |-> k]
  /\ batch_pc # "raised"
  /\ batch_pc \in {"done", "raised"} => Len(attempted) = items

\* C22: the attempts of a call are strictly sequential.  An invocation of the
\* model is dispatched only when every earlier invocation has got its
\* response and that response its validation outcome recorded, and at most
\* one invocation is in flight: the prompts sent are never more than one
\* ahead of the responses, nor the responses of the recorded errors.
C22_AttemptsAreSequential ==
  /\ pc = "chat" =>
       /\ Len(sent) = attempt /\ Len(raws) = attempt /\ Len(errs) = attempt
       /\ \A k \in 1..Len(raws) : ~Valid(raws[k]) /\ errs[k] = ErrorOf(raws[k])
  /\ Len(raws) <= Len(sent) /\ Len(sent) <= Len(raws) + 1
  /\ Len(errs) <= Len(raws) /\ Len(raws) <= Len(errs) + 1
  /\ pc = "validate" => Len(raws) = Len(errs) + 1 /\ Len(sent) = Len(raws)

C22_Witness ==
  /\ pc = "chat" /\ attempt = 2 /\ Len(sent) = 2 /\ Len(raws) = 2 /\ Len(errs) = 2

\* C23: every prompt sent begins with the same base prompt, which holds the
\* rendered schema and the whole source text as they were given; the text and
\* the schema of a call never change between attempts.
C23_BasePromptKept ==
  /\ [](pc # "idle" =>
          /\ Contains(BasePrompt, text)
          /\ Contains(BasePrompt, ModelJsonSchema(output_model))
          /\ StartsWith(prompt, BasePrompt)
          /\ \A k \in 1..Len(sent) : StartsWith(sent[k], BasePrompt))
  /\ [][pc # "idle" => (text' = text /\ output_model' = output_model)]_vars

C23_Witness ==
  /\ pc = "validate" /\ Len(sent) = 3 /\ Len(text) = 3
  /\ sent[3] # BasePrompt /\ StartsWith(sent[3], BasePrompt)

\* C24: the prompt grows.  The prompt sent at attempt k+1 has the prompt sent
\* at attempt k as a strict prefix, and what it adds is the raw output and the
\* error text of attempt k.
C24_PromptGrows ==
  \A k \in 1..(Len(sent) - 1) :
    /\ Len(sent[k]) < Len(sent[k + 1])
    /\ SubSeq(sent[k + 1], 1, Len(sent[k])) = sent[k]
    /\ SubSeq(sent[k + 1], Len(sent[k]) + 1, Len(sent[k + 1]))
         = RetrySuffix(raws[k], errs[k])

C24_Witness ==
  /\ Len(sent) = 3 /\ raws[1] # raws[2]
  /\ Len(sent[1]) < Len(sent[2]) /\ Len(sent[2]) < Len(sent[3])

\* C25: the budget is not checked against a minimum of 1.  With max_retries
\* <= 0 extract invokes the model not once and returns None without raising.
C25_NoBudgetNoInvocation ==
  max_retries <= 0 =>
    /\ sent = <<>> /\ raws = <<>>
    /\ pc \in {"idle", "for", "returned"}
    /\ pc = "returned" => result = None

C25_Witness ==
  /\ max_retries = 0 /\ pc = "returned" /\ result = None /\ sent = <<>>

\* The three ends of a call: a success, the exhaustion of the budget, the
\* failure of an invocation.
Succeeded == pc = "returned" /\ result # None
ExhaustedEnd == pc = "returned" /\ result = None
InvocationFailed == pc = "raised"

\* C26: every call of extract ends, in one of Succeeded, Exhausted and
\* invocation-failed and in one only, and stays there, as long as every
\* invocation of the model returns or fails: no sequence of responses keeps
\* it retrying for ever.
C26_SessionTerminates ==
  /\ (pc # "idle") ~> (Succeeded \/ ExhaustedEnd \/ InvocationFailed)
  /\ [][(Succeeded \/ ExhaustedEnd \/ InvocationFailed) => pc' = pc]_vars

C26_Witness ==
  /\ ExhaustedEnd /\ max_retries = 3 /\ Len(raws) = 3
  /\ ~Succeeded /\ ~InvocationFailed

\* C30: the script tool reports the outcome of an approved script faithfully:
\* the status is success only when the script ran and exited with return code
\* 0; a timeout or a failure to start the script gives an error status.
C30_StatusFollowsReturnCode ==
  \A k \in 1..Len(calls) :
    /\ calls[k].status = "success" => (calls[k].ran /\ calls[k].returncode = 0)
    /\ (calls[k].ran /\ calls[k].returncode = -1) => calls[k].status = "error"

\* C21: _run_coro_in_new_loop returns only when the coroutine has ended on
\* its thread; it returns the result of the coroutine, and whenever the
\* coroutine ends abnormally its failure is raised in the caller, never
\* turned into a return of None.
C21_FailureIsReRaised ==
  /\ caller_pc = "idle" => thread_pc = "none"
  /\ \A k \in 1..Len(uses) :
       /\ uses[k].coro.kind = "returns" =>
            (uses[k].how = "returned" /\ uses[k].v = uses[k].coro.v)
       /\ uses[k].coro.kind # "returns" =>
            (uses[k].how = "raised" /\ uses[k].v = uses[k].coro.v)

\* C27: the coding autograder grades no submission when run_tests is true and
\* the tests path is missing or the tests cannot be loaded; when run_tests is
\* false it grades without a tests path; and the CodeRunner is a worker of a
\* committee if and only if run_tests is true.
C27_TestsGateGrading ==
  /\ (run_tests /\ (tests_path = "None" \/ ~tests_load)) =>
       (committees = <<>> /\ main_pc \in {"rubric", "tests", "exited"})
  /\ (~run_tests /\ rubric_loads /\ submissions > 0) => main_pc # "exited"
  /\ (~run_tests /\ main_pc = "done") => Len(committees) = submissions
  /\ \A k \in 1..Len(committees) :
       committees[k].formed =>
         /\ ("CodeRunner" \in committees[k].workers) <=> run_tests
         /\ { "StaticAnalyzer", "LogicAndEfficiency", "RubricAligner" }
              \subseteq committees[k].workers

C27_Witness ==
  /\ ~run_tests /\ tests_path = "None" /\ main_pc = "done"
  /\ Len(committees) = 2 /\ committees[1].formed /\ committees[2].formed
  /\ "CodeRunner" \notin committees[1].workers

\* C28: the chunking loops terminate for every text and every setting of
\* chunk_size and chunk_overlap, chunk_overlap >= chunk_size included: every
\* iteration brings the loop variable at least one unit nearer to the end of
\* the text, so a loop makes no more iterations than the text has units.
C28_ChunkingTerminates ==
  chunk_pc \in {"while", "returned"} =>
    (start >= iterations /\ iterations <= Len(units))

\* The distance split_text moves on by.
Stride == chunk_size - chunk_overlap

\* The positions of the text, from 1, that chunk i (from 0) is cut from.
ChunkPositions(i) ==
  (i * Stride + 1)..Min(i * Stride + chunk_size, Len(units))

\* C29: for chunk_size > chunk_overlap >= 0 and a text that is not empty,
\* split_text covers the text without loss: chunk i is
\* text[i*(chunk_size-chunk_overlap) : i*(chunk_size-chunk_overlap)+chunk_size],
\* every position of the text lies in a chunk, no chunk is longer than
\* chunk_size, and two consecutive full chunks share exactly chunk_overlap
\* characters.
C29_SplitTextCovers ==
  (/\ chunker = "split_text" /\ chunk_pc = "returned"
   /\ chunk_size > chunk_overlap /\ chunk_overlap >= 0 /\ units # <<>>) =>
    /\ \A i \in 0..(Len(chunks) - 1) :
         /\ chunks[i + 1] = SubSeq(units, i * Stride + 1,
                                   Min(i * Stride + chunk_size, Len(units)))
         /\ Len(chunks[i + 1]) <= chunk_size
         /\ Len(chunks[i + 1]) >= 1
    /\ \A p \in 1..Len(units) :
         \E i \in 0..(Len(chunks) - 1) : p \in ChunkPositions(i)
    /\ \A i \in 0..(Len(chunks) - 2) :
         (Len(chunks[i + 1]) = chunk_size /\ Len(chunks[i + 2]) = chunk_size) =>
           /\ Cardinality(ChunkPositions(i) \cap ChunkPositions(i + 1)) = chunk_overlap
           /\ SubSeq(chunks[i + 1], Stride + 1, chunk_size)
                = SubSeq(chunks[i + 2], 1, chunk_overlap)

C29_Witness ==
  /\ chunker = "split_text" /\ chunk_pc = "returned"
  /\ chunk_size = 2 /\ chunk_overlap = 1
  /\ units = << "a", "b", "b", "a" >>
  /\ chunks = << << "a", "b" >>, << "b", "b" >>, << "b", "a" >>, << "a" >> >>

====
